---- MODULE Spec2Model ----
(***************************************************************************)
(* Narrative detection and momentum scoring engine.                        *)
(*                                                                         *)
(* Two detectors exist in the repository:                                  *)
(*   - the signal variant  (src/src/analysis/narrative_detector.py), which *)
(*     groups pre-scored signals by keyword substring and scores them;     *)
(*   - the content variant (src/narrative_engine.py), which clusters raw   *)
(*     content items and falls back to keyword counting.                   *)
(*                                                                         *)
(* Text is a sequence of one-character strings, so that Python's substring *)
(* test (in), str.count, str.split, str.lower and str.title are modelled   *)
(* by what they do on characters.  Time is counted in whole hours.         *)
(* Strengths are hundredths, confidence and momentum are thousandths.      *)
(***************************************************************************)
EXTENDS Integers, Sequences, FiniteSets, TLC

VARIABLES
  program,        \* which of the two programs this is a run of
  now,            \* datetime.now() as the last call read it
  signals,        \* signal variant: the list handed to the last detect call
  narratives,     \* signal variant: what the last detect call returned
  detected,       \* signal variant: TRUE once detect has been called
  raw_content,    \* content variant: data/raw_content.json as last read
  analysis,       \* content variant: what the last analyze_content did
  argsortMemo,    \* content variant: the keyword lists argsort gave last
  analysis_file,  \* server: data/narrative_analysis.json, a report or absent
  narrative_data, \* server: the global snapshot the endpoints serve
  last_update,    \* server: the global time of the last refresh, <<>> if None
  loop,           \* server: the request the event loop is running, 0 if none
  requests,       \* server: position and locals of each get_latest_data call
  pipeline        \* pipeline: position and locals of run_full_pipeline

sigVars == <<signals, narratives, detected>>
contentVars == <<raw_content, analysis, argsortMemo>>
serverMemory == <<narrative_data, last_update, loop, requests>>
serverVars == <<analysis_file, serverMemory, pipeline>>
vars == <<program, now, sigVars, contentVars, serverVars>>

(***************************************************************************)
(* Characters and strings                                                  *)
(***************************************************************************)
UpperChars == <<"A","B","C","D","E","F","G","H","I","J","K","L","M",
                "N","O","P","Q","R","S","T","U","V","W","X","Y","Z">>
LowerChars == <<"a","b","c","d","e","f","g","h","i","j","k","l","m",
                "n","o","p","q","r","s","t","u","v","w","x","y","z">>

IsUpper(c) == \E i \in 1..Len(UpperChars) : UpperChars[i] = c
IsLower(c) == \E i \in 1..Len(LowerChars) : LowerChars[i] = c
IsLetter(c) == IsUpper(c) \/ IsLower(c)
\* \w of Python's re on the ASCII range
IsWordChar(c) == IsLetter(c) \/ c \in {"0","1","2","3","4","5","6","7","8","9"} \/ c = "_"
\* \s of Python's re, and the separators of str.split()
IsSpace(c) == c \in {" ", "\t", "\n", "\r"}

LowerChar(c) ==
  IF IsUpper(c)
  THEN LowerChars[CHOOSE i \in 1..Len(UpperChars) : UpperChars[i] = c]
  ELSE c
UpperChar(c) ==
  IF IsLower(c)
  THEN UpperChars[CHOOSE i \in 1..Len(LowerChars) : LowerChars[i] = c]
  ELSE c

\* str.lower()
lower(t) == [i \in 1..Len(t) |-> LowerChar(t[i])]

\* str.title(): a letter is upper-cased when the character before it is not
\* a letter, lower-cased otherwise
title(t) ==
  [i \in 1..Len(t) |->
     IF i = 1 \/ ~IsLetter(t[i-1]) THEN UpperChar(t[i]) ELSE LowerChar(t[i])]

\* k occurs in t starting at position i
MatchAt(t, k, i) ==
  /\ i + Len(k) - 1 <= Len(t)
  /\ \A j \in 1..Len(k) : t[i + j - 1] = k[j]

\* Python's  k in t  for strings
Contains(t, k) == \E i \in 1..(Len(t) + 1) : MatchAt(t, k, i)

\* Python's  t.count(k): non-overlapping occurrences, scanning left to right
RECURSIVE CountFrom(_, _, _)
CountFrom(t, k, i) ==
  IF i + Len(k) - 1 > Len(t) THEN 0
  ELSE IF MatchAt(t, k, i) THEN 1 + CountFrom(t, k, i + Len(k))
  ELSE CountFrom(t, k, i + 1)
count(t, k) == CountFrom(t, k, 1)

\* Python's  t.split(): maximal runs of non-space characters
RECURSIVE SplitFrom(_, _, _)
SplitFrom(t, i, cur) ==
  IF i > Len(t) THEN (IF cur = <<>> THEN <<>> ELSE <<cur>>)
  ELSE IF IsSpace(t[i])
       THEN (IF cur = <<>> THEN <<>> ELSE <<cur>>) \o SplitFrom(t, i + 1, <<>>)
       ELSE SplitFrom(t, i + 1, Append(cur, t[i]))
split(t) == SplitFrom(t, 1, <<>>)

(***************************************************************************)
(* Sequence helpers                                                        *)
(***************************************************************************)
Range(s) == {s[i] : i \in 1..Len(s)}

\* the same sequence, its elements computed once
Eager(s) == s \o <<>>

RECURSIVE SumSeq(_)
SumSeq(s) == IF s = <<>> THEN 0 ELSE Head(s) + SumSeq(Tail(s))

RECURSIVE Concat(_)
Concat(ss) == IF ss = <<>> THEN <<>> ELSE Head(ss) \o Concat(Tail(ss))

Min(a, b) == IF a <= b THEN a ELSE b

\* first n elements (Python's s[:n])
Take(s, n) == SubSeq(s, 1, Min(n, Len(s)))
\* the rest (Python's s[n:])
Drop(s, n) == SubSeq(s, Min(n, Len(s)) + 1, Len(s))

\* the elements of s in order of first occurrence (the key order of a dict
\* or Counter filled from s)
RECURSIVE FirstOccurrences(_)
FirstOccurrences(s) ==
  IF s = <<>> THEN <<>>
  ELSE LET r == FirstOccurrences(SubSeq(s, 1, Len(s) - 1))
           x == s[Len(s)]
       IN IF x \in Range(r) THEN r ELSE Append(r, x)

\* number of elements of s equal to x
Occurrences(s, x) == Cardinality({i \in 1..Len(s) : s[i] = x})

\* Python's stable sort, descending (sorted(..., reverse=True) keeps the
\* original order of elements with equal keys): the indices of keys in
\* sorted order; index n goes after every index whose key is >= its own
RECURSIVE SortIdxDesc(_)
SortIdxDesc(keys) ==
  IF keys = <<>> THEN <<>>
  ELSE LET n == Len(keys)
           r == SortIdxDesc(SubSeq(keys, 1, n - 1))
           p == Cardinality({i \in 1..Len(r) : keys[r[i]] >= keys[n]})
       IN SubSeq(r, 1, p) \o <<n>> \o SubSeq(r, p + 1, Len(r))

\* Python's stable sort, ascending: the indices of keys in sorted order
RECURSIVE SortIdxAsc(_)
SortIdxAsc(keys) ==
  IF keys = <<>> THEN <<>>
  ELSE LET n == Len(keys)
           r == SortIdxAsc(SubSeq(keys, 1, n - 1))
           p == Cardinality({i \in 1..Len(r) : keys[r[i]] <= keys[n]})
       IN SubSeq(r, 1, p) \o <<n>> \o SubSeq(r, p + 1, Len(r))

\* Python's round(): num/den (den > 0, num >= 0) to the nearest integer,
\* a tie going to the even neighbour
RoundHalfEven(num, den) ==
  LET q == num \div den
      r == num % den
  IN IF 2 * r < den THEN q
     ELSE IF 2 * r > den THEN q + 1
     ELSE IF q % 2 = 0 THEN q ELSE q + 1

narrative_keywords ==
  << [name |-> "AI & Automation",
       keywords |-> << <<"a","i">>,
                      <<"a","r","t","i","f","i","c","i","a","l"," ","i","n","t","e","l","l","i","g","e","n","c","e">>,
                      <<"a","g","e","n","t">>,
                      <<"a","u","t","o","m","a","t","i","o","n">>,
                      <<"b","o","t">>,
                      <<"m","a","c","h","i","n","e"," ","l","e","a","r","n","i","n","g">>,
                      <<"n","e","u","r","a","l">>,
                      <<"g","p","t">>,
                      <<"l","l","m">>,
                      <<"a","u","t","o","n","o","m","o","u","s">> >>],
     [name |-> "DeFi Evolution",
       keywords |-> << <<"d","e","f","i">>,
                      <<"y","i","e","l","d">>,
                      <<"s","t","a","k","i","n","g">>,
                      <<"l","i","q","u","i","d","i","t","y">>,
                      <<"a","m","m">>,
                      <<"d","e","x">>,
                      <<"l","e","n","d","i","n","g">>,
                      <<"b","o","r","r","o","w","i","n","g">>,
                      <<"d","e","r","i","v","a","t","i","v","e","s">>,
                      <<"p","e","r","p","s">>,
                      <<"s","w","a","p">> >>],
     [name |-> "NFT & Digital Assets",
       keywords |-> << <<"n","f","t">>,
                      <<"c","o","l","l","e","c","t","i","o","n">>,
                      <<"a","r","t">>,
                      <<"p","f","p">>,
                      <<"d","i","g","i","t","a","l"," ","a","s","s","e","t">>,
                      <<"m","e","t","a","d","a","t","a">>,
                      <<"r","o","y","a","l","t","y">>,
                      <<"m","i","n","t">>,
                      <<"d","r","o","p">>,
                      <<"c","r","e","a","t","o","r">> >>],
     [name |-> "Gaming & Metaverse",
       keywords |-> << <<"g","a","m","i","n","g">>,
                      <<"g","a","m","e">>,
                      <<"m","e","t","a","v","e","r","s","e">>,
                      <<"v","i","r","t","u","a","l">>,
                      <<"a","v","a","t","a","r">>,
                      <<"i","t","e","m">>,
                      <<"p","l","a","y"," ","t","o"," ","e","a","r","n">>,
                      <<"p","2","e">>,
                      <<"g","u","i","l","d">>,
                      <<"t","o","u","r","n","a","m","e","n","t">> >>],
     [name |-> "Memecoins & Culture",
       keywords |-> << <<"m","e","m","e","c","o","i","n">>,
                      <<"m","e","m","e">>,
                      <<"p","u","m","p">>,
                      <<"f","u","n">>,
                      <<"v","i","r","a","l">>,
                      <<"c","o","m","m","u","n","i","t","y">>,
                      <<"s","h","i","t","c","o","i","n">>,
                      <<"a","p","e">>,
                      <<"d","i","a","m","o","n","d"," ","h","a","n","d","s">>,
                      <<"m","o","o","n">> >>],
     [name |-> "Infrastructure",
       keywords |-> << <<"r","p","c">>,
                      <<"n","o","d","e">>,
                      <<"v","a","l","i","d","a","t","o","r">>,
                      <<"i","n","f","r","a","s","t","r","u","c","t","u","r","e">>,
                      <<"s","c","a","l","i","n","g">>,
                      <<"p","e","r","f","o","r","m","a","n","c","e">>,
                      <<"b","a","n","d","w","i","d","t","h">>,
                      <<"l","a","t","e","n","c","y">>,
                      <<"t","h","r","o","u","g","h","p","u","t">> >>],
     [name |-> "Mobile & Payments",
       keywords |-> << <<"m","o","b","i","l","e">>,
                      <<"w","a","l","l","e","t">>,
                      <<"p","a","y","m","e","n","t">>,
                      <<"p","a","y">>,
                      <<"s","a","g","a">>,
                      <<"p","h","o","n","e">>,
                      <<"m","a","i","n","s","t","r","e","a","m">>,
                      <<"a","d","o","p","t","i","o","n">>,
                      <<"c","o","m","m","e","r","c","e">>,
                      <<"m","e","r","c","h","a","n","t">> >>],
     [name |-> "Cross-Chain & Bridges",
       keywords |-> << <<"b","r","i","d","g","e">>,
                      <<"c","r","o","s","s","-","c","h","a","i","n">>,
                      <<"m","u","l","t","i","c","h","a","i","n">>,
                      <<"i","n","t","e","r","o","p","e","r","a","b","i","l","i","t","y">>,
                      <<"e","t","h","e","r","e","u","m">>,
                      <<"p","o","l","y","g","o","n">>,
                      <<"a","r","b","i","t","r","u","m">>,
                      <<"w","o","r","m","h","o","l","e">> >>] >>

stop_words ==
  { <<"t","h","e">>,
    <<"a">>,
    <<"a","n">>,
    <<"a","n","d">>,
    <<"o","r">>,
    <<"b","u","t">>,
    <<"i","n">>,
    <<"o","n">>,
    <<"a","t">>,
    <<"t","o">>,
    <<"f","o","r">>,
    <<"o","f">>,
    <<"w","i","t","h">>,
    <<"b","y">>,
    <<"i","s">>,
    <<"a","r","e">>,
    <<"w","a","s">>,
    <<"w","e","r","e">>,
    <<"b","e">>,
    <<"b","e","e","n">>,
    <<"h","a","v","e">>,
    <<"h","a","s">>,
    <<"h","a","d">>,
    <<"w","i","l","l">>,
    <<"w","o","u","l","d">>,
    <<"c","o","u","l","d">>,
    <<"s","h","o","u","l","d">>,
    <<"m","a","y">>,
    <<"m","i","g","h","t">>,
    <<"t","h","i","s">>,
    <<"t","h","a","t">>,
    <<"t","h","e","s","e">>,
    <<"t","h","o","s","e">>,
    <<"f","r","o","m">>,
    <<"u","p">>,
    <<"d","o","w","n">>,
    <<"o","v","e","r">>,
    <<"u","n","d","e","r">> }

known_narratives ==
  << [name |-> <<"a","u","t","o","n","o","m","o","u","s","_","a","g","e","n","t","s">>,
       keywords |-> << <<"a","g","e","n","t">>,
                      <<"a","u","t","o","n","o","m","o","u","s">>,
                      <<"a","i">>,
                      <<"b","o","t">>,
                      <<"a","u","t","o","m","a","t","i","o","n">>,
                      <<"h","a","c","k","a","t","h","o","n">>,
                      <<"s","u","p","e","r","t","e","a","m">>,
                      <<"e","a","r","n">> >>],
     [name |-> <<"p","a","y","m","e","n","t","s","_","s","t","a","b","l","e","c","o","i","n","s">>,
       keywords |-> << <<"p","a","y","m","e","n","t">>,
                      <<"s","t","a","b","l","e","c","o","i","n">>,
                      <<"u","s","d","c">>,
                      <<"c","o","n","t","r","a">>,
                      <<"v","o","l","u","m","e">>,
                      <<"t","r","a","n","s","a","c","t","i","o","n">>,
                      <<"t","r","a","n","s","f","e","r">> >>],
     [name |-> <<"r","w","a","_","t","o","k","e","n","i","z","a","t","i","o","n">>,
       keywords |-> << <<"r","w","a">>,
                      <<"r","e","a","l"," ","w","o","r","l","d"," ","a","s","s","e","t">>,
                      <<"t","o","k","e","n","i","z","a","t","i","o","n">>,
                      <<"i","n","s","t","i","t","u","t","i","o","n","a","l">>,
                      <<"v","i","s","a">>,
                      <<"c","a","t","h","e","r","i","n","e"," ","g","u">> >>],
     [name |-> <<"c","o","n","s","u","m","e","r","_","c","r","y","p","t","o">>,
       keywords |-> << <<"c","o","n","s","u","m","e","r">>,
                      <<"m","o","b","i","l","e">>,
                      <<"w","a","l","l","e","t">>,
                      <<"c","o","n","s","u","m","e","r"," ","d","a","y">>,
                      <<"a","p","p">>,
                      <<"u","s","e","r">>,
                      <<"e","x","p","e","r","i","e","n","c","e">> >>],
     [name |-> <<"d","e","f","i","_","y","i","e","l","d">>,
       keywords |-> << <<"d","e","f","i">>,
                      <<"y","i","e","l","d">>,
                      <<"f","a","r","m","i","n","g">>,
                      <<"l","i","q","u","i","d","i","t","y">>,
                      <<"j","u","p","i","t","e","r">>,
                      <<"r","a","y","d","i","u","m">>,
                      <<"d","r","i","f","t">> >>],
     [name |-> <<"m","e","m","e","c","o","i","n","s">>,
       keywords |-> << <<"m","e","m","e","c","o","i","n">>,
                      <<"m","e","m","e">>,
                      <<"p","u","m","p">>,
                      <<"f","u","n">>,
                      <<"b","o","n","k">>,
                      <<"w","e","n">>,
                      <<"c","u","l","t","u","r","e">> >>],
     [name |-> <<"n","f","t","_","g","a","m","i","n","g">>,
       keywords |-> << <<"n","f","t">>,
                      <<"g","a","m","e">>,
                      <<"g","a","m","i","n","g">>,
                      <<"m","e","t","a","v","e","r","s","e">>,
                      <<"c","o","l","l","e","c","t","i","o","n">>,
                      <<"p","l","a","y">> >>] >>

\* stopwords.words('english') of NLTK, without the entries holding an
\* apostrophe (no token holds one)
nltk_english_stop_words ==
  { <<"i">>, <<"m","e">>, <<"m","y">>, <<"m","y","s","e","l","f">>,
    <<"w","e">>, <<"o","u","r">>, <<"o","u","r","s">>, <<"o","u","r","s","e","l","v","e","s">>,
    <<"y","o","u">>, <<"y","o","u","r">>, <<"y","o","u","r","s">>, <<"y","o","u","r","s","e","l","f">>,
    <<"y","o","u","r","s","e","l","v","e","s">>, <<"h","e">>, <<"h","i","m">>, <<"h","i","s">>,
    <<"h","i","m","s","e","l","f">>, <<"s","h","e">>, <<"h","e","r">>, <<"h","e","r","s">>,
    <<"h","e","r","s","e","l","f">>, <<"i","t">>, <<"i","t","s">>, <<"i","t","s","e","l","f">>,
    <<"t","h","e","y">>, <<"t","h","e","m">>, <<"t","h","e","i","r">>, <<"t","h","e","i","r","s">>,
    <<"t","h","e","m","s","e","l","v","e","s">>, <<"w","h","a","t">>, <<"w","h","i","c","h">>, <<"w","h","o">>,
    <<"w","h","o","m">>, <<"t","h","i","s">>, <<"t","h","a","t">>, <<"t","h","e","s","e">>,
    <<"t","h","o","s","e">>, <<"a","m">>, <<"i","s">>, <<"a","r","e">>,
    <<"w","a","s">>, <<"w","e","r","e">>, <<"b","e">>, <<"b","e","e","n">>,
    <<"b","e","i","n","g">>, <<"h","a","v","e">>, <<"h","a","s">>, <<"h","a","d">>,
    <<"h","a","v","i","n","g">>, <<"d","o">>, <<"d","o","e","s">>, <<"d","i","d">>,
    <<"d","o","i","n","g">>, <<"a">>, <<"a","n">>, <<"t","h","e">>,
    <<"a","n","d">>, <<"b","u","t">>, <<"i","f">>, <<"o","r">>,
    <<"b","e","c","a","u","s","e">>, <<"a","s">>, <<"u","n","t","i","l">>, <<"w","h","i","l","e">>,
    <<"o","f">>, <<"a","t">>, <<"b","y">>, <<"f","o","r">>,
    <<"w","i","t","h">>, <<"a","b","o","u","t">>, <<"a","g","a","i","n","s","t">>, <<"b","e","t","w","e","e","n">>,
    <<"i","n","t","o">>, <<"t","h","r","o","u","g","h">>, <<"d","u","r","i","n","g">>, <<"b","e","f","o","r","e">>,
    <<"a","f","t","e","r">>, <<"a","b","o","v","e">>, <<"b","e","l","o","w">>, <<"t","o">>,
    <<"f","r","o","m">>, <<"u","p">>, <<"d","o","w","n">>, <<"i","n">>,
    <<"o","u","t">>, <<"o","n">>, <<"o","f","f">>, <<"o","v","e","r">>,
    <<"u","n","d","e","r">>, <<"a","g","a","i","n">>, <<"f","u","r","t","h","e","r">>, <<"t","h","e","n">>,
    <<"o","n","c","e">>, <<"h","e","r","e">>, <<"t","h","e","r","e">>, <<"w","h","e","n">>,
    <<"w","h","e","r","e">>, <<"w","h","y">>, <<"h","o","w">>, <<"a","l","l">>,
    <<"a","n","y">>, <<"b","o","t","h">>, <<"e","a","c","h">>, <<"f","e","w">>,
    <<"m","o","r","e">>, <<"m","o","s","t">>, <<"o","t","h","e","r">>, <<"s","o","m","e">>,
    <<"s","u","c","h">>, <<"n","o">>, <<"n","o","r">>, <<"n","o","t">>,
    <<"o","n","l","y">>, <<"o","w","n">>, <<"s","a","m","e">>, <<"s","o">>,
    <<"t","h","a","n">>, <<"t","o","o">>, <<"v","e","r","y">>, <<"s">>,
    <<"t">>, <<"c","a","n">>, <<"w","i","l","l">>, <<"j","u","s","t">>,
    <<"d","o","n">>, <<"s","h","o","u","l","d">>, <<"n","o","w">>, <<"d">>,
    <<"l","l">>, <<"m">>, <<"o">>, <<"r","e">>,
    <<"v","e">>, <<"y">>, <<"a","i","n">>, <<"a","r","e","n">>,
    <<"c","o","u","l","d","n">>, <<"d","i","d","n">>, <<"d","o","e","s","n">>, <<"h","a","d","n">>,
    <<"h","a","s","n">>, <<"h","a","v","e","n">>, <<"i","s","n">>, <<"m","a">>,
    <<"m","i","g","h","t","n">>, <<"m","u","s","t","n">>, <<"n","e","e","d","n">>, <<"s","h","a","n">>,
    <<"s","h","o","u","l","d","n">>, <<"w","a","s","n">>, <<"w","e","r","e","n">>, <<"w","o","n">>,
    <<"w","o","u","l","d","n">> }

\* self.stop_words of the content variant
content_stop_words ==
  nltk_english_stop_words \cup
  { <<"s","o","l","a","n","a">>,
    <<"s","o","l">>,
    <<"b","l","o","c","k","c","h","a","i","n">>,
    <<"c","r","y","p","t","o">>,
    <<"c","r","y","p","t","o","c","u","r","r","e","n","c","y">>,
    <<"t","w","e","e","t">>,
    <<"t","w","i","t","t","e","r">>,
    <<"s","a","y","s">>,
    <<"s","a","i","d">>,
    <<"n","e","w">>,
    <<"j","u","s","t">>,
    <<"t","o","d","a","y">>,
    <<"h","t","t","p","s">>,
    <<"h","t","t","p">>,
    <<"w","w","w">>,
    <<"c","o","m">>,
    <<"t">>,
    <<"c","o">> }

(***************************************************************************)
(* The texts inputs are drawn from                                         *)
(***************************************************************************)
TextDefi == <<"D","e","F","i"," ","y","i","e","l","d"," ","l","i","q","u","i","d","i","t","y">>
TextHackathon == <<"H","a","c","k","a","t","h","o","n","!"," ","h","a","c","k","a","t","h","o","n"," ","g","r","a","n","t","s">>
TextChain == <<"c","r","o","s","s","-","c","h","a","i","n"," ","b","r","i","d","g","e">>
TextGame == <<"G","a","m","e",","," ","g","a","m","e",","," ","g","a","m","e"," ","o","n",":"," ","N","F","T","!">>
TextHackTag == <<"H","a","c","k","a","t","h","o","n",","," ","h","a","c","k","a","t","h","o","n",","," ","H","A","C","K","A","T","H","O","N","!"," ","#","S","o","l","a","n","a"," ","h","t","t","p","s",":","/","/","t",".","c","o","/","x">>
TextAgent == <<"A","I"," ","a","g","e","n","t">>
TextDefiTags == <<"#","D","e","F","i"," ","#","y","i","e","l","d"," ","l","i","q","u","i","d","i","t","y">>
\* the third text reads "grants hackathon grants", the last one
\* "breakpoint tickets"
PoolTexts ==
  <<TextDefi, TextHackathon,
    <<"g","r","a","n","t","s"," ","h","a","c","k","a","t","h","o","n"," ","g","r","a","n","t","s">>,
    TextChain, TextGame, TextHackTag, TextAgent, TextDefiTags,
    <<"b","r","e","a","k","p","o","i","n","t"," ","t","i","c","k","e","t","s">>>>
(***************************************************************************)
(* Signal variant: src/src/analysis/narrative_detector.py                  *)
(***************************************************************************)

\* A signal's timestamp string, by what datetime.fromisoformat makes of it
\* after .replace('Z', ''):
\*   "naive"  an ISO-8601 string without zone     -> a naive datetime
\*   "zulu"   an ISO-8601 string ending in Z      -> a naive datetime
\*   "offset" an ISO-8601 string ending in +00:00 -> an aware datetime
\*   "bad"    anything else (e.g. Twitter's created_at) -> ValueError
\* t is the instant in hours.
SigParse(ts) ==
  CASE ts.kind \in {"naive", "zulu"} -> [ok |-> TRUE, aware |-> FALSE, t |-> ts.t]
    [] ts.kind = "offset"            -> [ok |-> TRUE, aware |-> TRUE, t |-> ts.t]
    [] OTHER                         -> [ok |-> FALSE, aware |-> FALSE, t |-> 0]

FirstMatchIn_last(signal_text, catalog) ==
  LET hits == {c \in 1..Len(catalog) :
                 \E j \in 1..Len(catalog[c].keywords) :
                    Contains(signal_text, catalog[c].keywords[j])}
  IN IF hits = {} THEN 0 ELSE CHOOSE c \in hits : \A d \in hits : c >= d
\* index of the first catalog narrative one of whose keywords occurs in the
\* lower-cased signal text, 0 when none does
FirstMatchIn(signal_text, catalog) ==
  LET hits == {c \in 1..Len(catalog) :
                 \E j \in 1..Len(catalog[c].keywords) :
                    Contains(signal_text, catalog[c].keywords[j])}
  IN IF hits = {} THEN 0 ELSE CHOOSE c \in hits : \A d \in hits : c <= d

\* re.sub(r'[^\w\s]', ' ', text)
PunctuationToSpace(t) ==
  [i \in 1..Len(t) |-> IF IsWordChar(t[i]) \/ IsSpace(t[i]) THEN t[i] ELSE " "]

_extract_keywords(text) ==
  SelectSeq(split(Eager(PunctuationToSpace(Eager(lower(text))))),
            LAMBDA w : Len(w) > 3 /\ w \notin stop_words)

\* The texts the inputs are drawn from, and what the text operations above
\* give on each of them, computed once
TextId(text) == CHOOSE i \in 1..Len(PoolTexts) : PoolTexts[i] = text
LowerTable == Eager([i \in 1..Len(PoolTexts) |-> Eager(lower(PoolTexts[i]))])
CatalogMatchTable ==
  Eager([i \in 1..Len(LowerTable) |-> FirstMatchIn(LowerTable[i], narrative_keywords)])
KeywordsTable ==
  Eager([i \in 1..Len(PoolTexts) |-> Eager(_extract_keywords(PoolTexts[i]))])

EmergingName(keyword) == [prefix |-> "Emerging: ", term |-> title(keyword)]

MostCommon_unranked(keys, all_keywords) ==
  SelectSeq(Take(keys, 10), LAMBDA key : Occurrences(all_keywords, key) >= 2)
\* Counter(all_keywords).most_common(10) filtered to count >= 2
MostCommon(keys, all_keywords) ==
  LET counts == [i \in 1..Len(keys) |-> Occurrences(all_keywords, keys[i])]
      kept == SelectSeq(Take(SortIdxDesc(counts), 10), LAMBDA i : counts[i] >= 2)
  IN Eager([i \in 1..Len(kept) |-> keys[kept[i]]])
CommonKeywords(all_keywords) ==
  MostCommon(FirstOccurrences(all_keywords), all_keywords)

\* the first common keyword occurring in the lower-cased text, <<>> when none
FirstKeywordIn(signal_text, common_keywords) ==
  LET hits == {j \in 1..Len(common_keywords) :
                 Contains(signal_text, common_keywords[j])}
  IN IF hits = {} THEN <<>>
     ELSE common_keywords[CHOOSE j \in hits : \A k \in hits : j <= k]
FirstCommonKeyword(text, common_keywords) ==
  FirstKeywordIn(LowerTable[TextId(text)], common_keywords)

\* new_clusters as a sequence of [name, members] in key insertion order:
\* idx holds the indices of the unmatched signals, keyword[k] the common
\* keyword signal idx[k] goes under (<<>> for none)
GroupByKeyword(idx, keyword) ==
  LET grouped == SelectSeq([k \in 1..Len(idx) |-> k], LAMBDA k : keyword[k] # <<>>)
      names == FirstOccurrences([g \in 1..Len(grouped) |->
                                   EmergingName(keyword[grouped[g]])])
  IN [n \in 1..Len(names) |->
        [name |-> names[n],
         members |-> LET mine == SelectSeq(grouped, LAMBDA k :
                                  EmergingName(keyword[k]) = names[n])
                     IN [m \in 1..Len(mine) |-> idx[mine[m]]]]]

GroupByCommonKeywords(sigs, idx, common_keywords) ==
  IF common_keywords = <<>> THEN <<>>
  ELSE GroupByKeyword(idx,
         Eager([k \in 1..Len(idx) |->
                  FirstCommonKeyword(sigs[idx[k]].signal, common_keywords)]))

\* sigs is the input list, idx the indices (in order) of the unmatched
\* signals.  The result is the dict new_clusters as a sequence of
\* [name, members] in key insertion order; members are indices into sigs.
_discover_new_narratives(sigs, idx) ==
  IF Len(idx) < 3 THEN <<>>
  ELSE GroupByCommonKeywords(sigs, idx,
         CommonKeywords(Concat([i \in 1..Len(idx) |->
                                  KeywordsTable[TextId(sigs[idx[i]].signal)]])))

\* clusters after the matching loop, in key insertion order: cat[i] is the
\* catalog narrative signal i matched, 0 for none
CatalogClusters(cat) ==
  LET all == [i \in 1..Len(cat) |-> i]
      matched == SelectSeq(all, LAMBDA i : cat[i] # 0)
      keys == FirstOccurrences([i \in 1..Len(matched) |-> cat[matched[i]]])
  IN [k \in 1..Len(keys) |->
        [name |-> [prefix |-> narrative_keywords[keys[k]].name, term |-> <<>>],
         members |-> SelectSeq(all, LAMBDA i : cat[i] = keys[k])]]

ClustersBy_unfiltered(sigs, cat) ==
  CatalogClusters(cat)
    \o _discover_new_narratives(sigs,
         SelectSeq([i \in 1..Len(cat) |-> i], LAMBDA i : cat[i] = 0))
ClustersBy_three_signals(sigs, cat) ==
  SelectSeq(CatalogClusters(cat)
              \o _discover_new_narratives(sigs,
                   SelectSeq([i \in 1..Len(cat) |-> i], LAMBDA i : cat[i] = 0)),
            LAMBDA c : Len(c.members) >= 3)
ClustersBy(sigs, cat) ==
  SelectSeq(CatalogClusters(cat)
              \o _discover_new_narratives(sigs,
                   SelectSeq([i \in 1..Len(cat) |-> i], LAMBDA i : cat[i] = 0)),
            LAMBDA c : Len(c.members) >= 2)

\* the dict returned by _cluster_signals, as a sequence of [name, members]
\* in key insertion order
_cluster_signals(sigs) ==
  ClustersBy(sigs, Eager([i \in 1..Len(sigs) |->
                            CatalogMatchTable[TextId(sigs[i].signal)]]))

\* sum of the strengths of a list of signals, in hundredths
StrengthSum(ss) == SumSeq([i \in 1..Len(ss) |-> ss[i].strength])
UniqueSources(ss) == {ss[i].source : i \in 1..Len(ss)}

\* recency_score * 168 of one signal: max(0, 1 - hours_ago/168), or 0.5 when
\* parsing the timestamp or subtracting it from the naive now raises
RecencyScoreUnclamped(s, clock) ==
  LET p == SigParse(s.timestamp)
  IN IF p.ok /\ ~p.aware THEN 168 - (clock - p.t) ELSE 84
RecencyScore168(s, clock) ==
  LET p == SigParse(s.timestamp)
  IN IF p.ok /\ ~p.aware THEN (IF 168 - (clock - p.t) > 0 THEN 168 - (clock - p.t) ELSE 0)
     ELSE 84

\* round(momentum, 3) * 1000, where
\*   momentum = min(n/10,1)*0.3 + avg_strength*0.4 + avg_recency*0.2
\*              + min(unique_sources/3,1)*0.1
\* as the exact fraction over 21*n
_calculate_momentum(ss, clock) ==
  IF ss = <<>> THEN 0
  ELSE LET n == Len(ss)
           S == StrengthSum(ss)
           R == SumSeq([i \in 1..n |-> RecencyScore168(ss[i], clock)])
           u == Cardinality(UniqueSources(ss))
       IN RoundHalfEven(30 * Min(n, 10) * 21 * n + 4 * S * 21 + 25 * R
                          + 100 * Min(u, 3) * 7 * n,
                        21 * n)

StrengthTrend_late_half(ss) ==
  LET n == Len(ss)
      parsed == [i \in 1..n |-> SigParse(ss[i].timestamp)]
      \* the key function raises on an unparsable timestamp, and sorting
      \* raises TypeError when naive and aware datetimes are compared
      raises == \/ \E i \in 1..n : ~parsed[i].ok
                \/ \E i, j \in 1..n : parsed[i].aware # parsed[j].aware
      order == SortIdxAsc([i \in 1..n |-> parsed[i].t])
      sorted_signals == [i \in 1..n |-> ss[order[i]]]
      mid_point == (n + 1) \div 2
      early_signals == Take(sorted_signals, mid_point)
      recent_signals == Drop(sorted_signals, mid_point)
      Se == StrengthSum(early_signals)
      ne == Len(early_signals)
      Sr == StrengthSum(recent_signals)
      nr == Len(recent_signals)
      \* strength_ratio = (Sr/nr) / (Se/ne) when Se > 0, else 1
  IN IF raises THEN "stable"
     ELSE IF Se > 0 /\ 5 * Sr * ne > 6 * Se * nr THEN "accelerating"
     ELSE IF Se > 0 /\ 5 * Sr * ne < 4 * Se * nr THEN "declining"
     ELSE "stable"
\* the classification by the strength ratio of the recent half to the
\* early half, "stable" when sorting by timestamp raises
StrengthTrend(ss) ==
  LET n == Len(ss)
      parsed == [i \in 1..n |-> SigParse(ss[i].timestamp)]
      \* the key function raises on an unparsable timestamp, and sorting
      \* raises TypeError when naive and aware datetimes are compared
      raises == \/ \E i \in 1..n : ~parsed[i].ok
                \/ \E i, j \in 1..n : parsed[i].aware # parsed[j].aware
      order == SortIdxAsc([i \in 1..n |-> parsed[i].t])
      sorted_signals == [i \in 1..n |-> ss[order[i]]]
      mid_point == n \div 2
      early_signals == Take(sorted_signals, mid_point)
      recent_signals == Drop(sorted_signals, mid_point)
      Se == StrengthSum(early_signals)
      ne == Len(early_signals)
      Sr == StrengthSum(recent_signals)
      nr == Len(recent_signals)
      \* strength_ratio = (Sr/nr) / (Se/ne) when Se > 0, else 1
  IN IF raises THEN "stable"
     ELSE IF Se > 0 /\ 5 * Sr * ne > 6 * Se * nr THEN "accelerating"
     ELSE IF Se > 0 /\ 5 * Sr * ne < 4 * Se * nr THEN "declining"
     ELSE "stable"

_determine_trend_below_two(ss) ==
  IF Len(ss) < 2 THEN "emerging" ELSE StrengthTrend(ss)
_determine_trend(ss) ==
  IF Len(ss) < 3 THEN "emerging" ELSE StrengthTrend(ss)

\* round(confidence, 3) * 1000, where
\*   confidence = min(n/5,1)*0.4 + avg_strength*0.4 + min(sources/3,1)*0.2
\* as the exact fraction over 3*n
_calculate_confidence_uncapped(ss) ==
  LET n == Len(ss)
      S == StrengthSum(ss)
      u == Cardinality(UniqueSources(ss))
  IN RoundHalfEven(240 * n * n + 12 * S + 200 * n * Min(u, 3), 3 * n)
_calculate_confidence_inverted(ss) ==
  LET n == Len(ss)
      S == StrengthSum(ss)
      u == Cardinality(UniqueSources(ss))
  IN RoundHalfEven((IF n >= 5 THEN 6000 ELSE 1200 * n) + 12 * S
                     + 200 * n * Min(u, 3), 3 * n)
_calculate_confidence(ss) ==
  LET n == Len(ss)
      S == StrengthSum(ss)
      u == Cardinality(UniqueSources(ss))
  IN RoundHalfEven(240 * n * Min(n, 5) + 12 * S + 200 * n * Min(u, 3), 3 * n)

\* members (the indices of the clustered signals in the input list) is kept
\* beside the fields of the returned dict; description, top_signals and
\* metadata are left out
_create_narrative(name, sigs, members, clock) ==
  LET ss == [i \in 1..Len(members) |-> sigs[members[i]]]
  IN [name |-> name,
      momentum_score |-> _calculate_momentum(ss, clock),
      momentum_trend |-> _determine_trend(ss),
      confidence |-> _calculate_confidence(ss),
      signal_count |-> Len(ss),
      sources |-> UniqueSources(ss),
      timestamp |-> clock,
      avg_strength |-> [num |-> StrengthSum(ss), den |-> Len(ss)],
      members |-> members]

SortByMomentum_unsorted(created) == created
\* narratives.sort(key=lambda x: x['momentum_score'], reverse=True)
SortByMomentum(created) ==
  LET order == SortIdxDesc(Eager([k \in 1..Len(created) |->
                                    created[k].momentum_score]))
  IN Eager([k \in 1..Len(created) |-> created[order[k]]])

CreateNarratives(narrative_clusters, sigs, clock) ==
  Eager([k \in 1..Len(narrative_clusters) |->
           _create_narrative(narrative_clusters[k].name, sigs,
                             narrative_clusters[k].members, clock)])

detect(sigs, clock) ==
  IF sigs = <<>> THEN <<>>
  ELSE SortByMomentum(CreateNarratives(_cluster_signals(sigs), sigs, clock))

(***************************************************************************)
(* Content variant: src/narrative_engine.py                                *)
(***************************************************************************)

\* re.sub(r'http\S+|@\w+|#\w+', '', text), scanning from position i
RECURSIVE StripNoiseFrom(_, _)
StripNoiseFrom(t, i) ==
  IF i > Len(t) THEN <<>>
  ELSE IF MatchAt(t, <<"h","t","t","p">>, i)
          /\ i + 4 <= Len(t) /\ ~IsSpace(t[i + 4])
       THEN LET stop == {j \in (i + 4)..Len(t) : IsSpace(t[j])}
                next == IF stop = {} THEN Len(t) + 1
                        ELSE CHOOSE j \in stop : \A k \in stop : j <= k
            IN StripNoiseFrom(t, next)
  ELSE IF t[i] \in {"@", "#"} /\ i + 1 <= Len(t) /\ IsWordChar(t[i + 1])
       THEN LET stop == {j \in (i + 1)..Len(t) : ~IsWordChar(t[j])}
                next == IF stop = {} THEN Len(t) + 1
                        ELSE CHOOSE j \in stop : \A k \in stop : j <= k
            IN StripNoiseFrom(t, next)
  ELSE <<t[i]>> \o StripNoiseFrom(t, i + 1)

\* PorterStemmer.stem on the words the pooled texts hold: the words it
\* changes, each with its stem; every other pooled word is its own stem
PorterStems ==
  << << <<"g","a","m","i","n","g">>, <<"g","a","m","e">> >>,
     << <<"l","i","q","u","i","d","i","t","y">>, <<"l","i","q","u","i","d">> >>,
     << <<"f","a","r","m","i","n","g">>, <<"f","a","r","m">> >>,
     << <<"a","g","e","n","t","s">>, <<"a","g","e","n","t">> >>,
     << <<"g","r","a","n","t","s">>, <<"g","r","a","n","t">> >> >>
stem(w) ==
  IF \E i \in 1..Len(PorterStems) : PorterStems[i][1] = w
  THEN PorterStems[CHOOSE i \in 1..Len(PorterStems) : PorterStems[i][1] = w][2]
  ELSE w

\* re.sub(r'[^a-zA-Z\s]', ' ', text)
NonLettersToSpace(t) ==
  [i \in 1..Len(t) |-> IF IsLetter(t[i]) \/ IsSpace(t[i]) THEN t[i] ELSE " "]

\* the stems of the tokens that are no stop words and longer than 2
StemKept(tokens, stops) ==
  LET kept == SelectSeq(tokens, LAMBDA w : w \notin stops /\ Len(w) > 2)
  IN Eager([i \in 1..Len(kept) |-> stem(kept[i])])

\* The processed text as its token list (' '.join(tokens), which the
\* caller splits again).  word_tokenize sees only letters and white space
\* here and splits at white space.
preprocess_text(text) ==
  StemKept(split(Eager(NonLettersToSpace(Eager(StripNoiseFrom(Eager(lower(text)), 1))))),
           content_stop_words)

\* ' '.join(words)
RECURSIVE Join(_)
Join(words) ==
  IF words = <<>> THEN <<>>
  ELSE IF Len(words) = 1 THEN words[1]
  ELSE words[1] \o <<" ">> \o Join(Tail(words))

\* What the text operations give on each pooled text, computed once
ProcessedTable ==
  Eager([i \in 1..Len(PoolTexts) |-> Eager(preprocess_text(PoolTexts[i]))])
processed_of(item) == ProcessedTable[TextId(item.content)]

\* item['content'][:100] + "..."
Sample(item) == Take(item.content, 100) \o <<".", ".", ".">>

\* narrative_name.replace('_', ' ').title()
DisplayName(narrative_name) ==
  title([i \in 1..Len(narrative_name) |->
           IF narrative_name[i] = "_" THEN " " ELSE narrative_name[i]])

\* the item's timestamp as datetime.fromisoformat(ts.replace('Z', '+00:00'))
\* .replace(tzinfo=None) gives it; ok is FALSE when fromisoformat raises
ContentParse(ts) ==
  IF ts.kind \in {"naive", "zulu", "offset"}
  THEN [ok |-> TRUE, t |-> ts.t]
  ELSE [ok |-> FALSE, t |-> 0]

\* the pooled texts whose lower-cased content holds one of the keywords
MentioningIn(lowered, keywords) ==
  {t \in 1..Len(lowered) :
     \E j \in 1..Len(keywords) : Contains(lowered[t], keywords[j])}
MentioningTexts(keywords) == MentioningIn(LowerTable, keywords)

\* any(keyword in item['content'].lower() for keyword in keywords)
MentionsAny(item, keywords) == TextId(item.content) \in MentioningTexts(keywords)

\* Counter(item['source_type'] for item in items) as a function
SourceCounter(items) ==
  [s \in {items[i].source_type : i \in 1..Len(items)} |->
     Cardinality({i \in 1..Len(items) : items[i].source_type = s})]

\* " ".join(item['content'].lower() for item in content_items)
AllText(content_items) ==
  Join([i \in 1..Len(content_items) |-> LowerTable[TextId(content_items[i].content)]])

\* keyword.count on each pooled text, and whether the text holds the
\* keyword's first word, computed once
KeywordCountTable ==
  Eager([t \in 1..Len(LowerTable) |->
    Eager([c \in 1..Len(known_narratives) |->
      Eager([j \in 1..Len(known_narratives[c].keywords) |->
        count(LowerTable[t], known_narratives[c].keywords[j])])])])
FirstWordTable ==
  Eager([t \in 1..Len(LowerTable) |->
    Eager([c \in 1..Len(known_narratives) |->
      Eager([j \in 1..Len(known_narratives[c].keywords) |->
        Contains(LowerTable[t], split(known_narratives[c].keywords[j])[1])])])])
CatalogMentionTable ==
  Eager([c \in 1..Len(known_narratives) |->
    MentioningIn(LowerTable, known_narratives[c].keywords)])

\* all_text.count(keyword) for a catalog keyword.  The items are joined by
\* one space, so an occurrence lies inside one item unless the keyword
\* holds a space; and a keyword whose first word no item holds does not
\* occur at all.  Only the remaining case scans the joined text.
\* counts[i] is keyword.count on item i, has_first[i] whether item i holds
\* the keyword's first word.
CountInJoined(content_items, keyword, counts, has_first) ==
  IF \/ \A k \in 1..Len(keyword) : keyword[k] # " "
     \/ \A i \in 1..Len(has_first) : ~has_first[i]
  THEN SumSeq(counts)
  ELSE count(AllText(content_items), keyword)
all_text_count(content_items, ids, c, j) ==
  CountInJoined(content_items, known_narratives[c].keywords[j],
                [i \in 1..Len(ids) |-> KeywordCountTable[ids[i]][c][j]],
                [i \in 1..Len(ids) |-> FirstWordTable[ids[i]][c][j]])

\* count of each catalog entry: sum(all_text.count(keyword) for keyword in
\* keywords); ids[i] is the pooled text of item i
CatalogCounts(content_items, ids, sizes) ==
  Eager([c \in 1..Len(sizes) |->
           SumSeq([j \in 1..sizes[c] |-> all_text_count(content_items, ids, c, j)])])

\* sorted(narratives, key=lambda n: n.frequency, reverse=True)
SortByFrequency(made) ==
  LET order == SortIdxDesc(Eager([k \in 1..Len(made) |-> made[k].frequency]))
  IN Eager([k \in 1..Len(made) |-> made[order[k]]])

\* the Narrative of one catalog entry; mentioning holds the indices of the
\* items with one of its keywords.  Beside the fields of Narrative,
\* members holds the indices of those items.
FallbackNarrative(content_items, entry, occurrences, mentioning) ==
  [name |-> DisplayName(entry.name),
   keywords |-> Take(entry.keywords, 5),
   confidence |-> Min(occurrences * 50, 1000),
   frequency |-> occurrences,
   momentum |-> "steady",
   source_breakdown |->
     SourceCounter([i \in 1..Len(mentioning) |-> content_items[mentioning[i]]]),
   sample_content |->
     Take([i \in 1..Len(mentioning) |-> Sample(content_items[mentioning[i]])], 3),
   timespan_data |-> <<>>,
   members |-> Range(mentioning)]

FallbackNarratives_two_mentions(content_items, ids, catalog, mentions, counts) ==
  LET emitted == SelectSeq([c \in 1..Len(catalog) |-> c], LAMBDA c : counts[c] >= 2)
  IN Eager([k \in 1..Len(emitted) |->
       FallbackNarrative(content_items, catalog[emitted[k]], counts[emitted[k]],
         SelectSeq([i \in 1..Len(ids) |-> i],
                   LAMBDA i : ids[i] \in mentions[emitted[k]]))])
FallbackNarratives(content_items, ids, catalog, mentions, counts) ==
  LET emitted == SelectSeq([c \in 1..Len(catalog) |-> c], LAMBDA c : counts[c] >= 3)
  IN Eager([k \in 1..Len(emitted) |->
       FallbackNarrative(content_items, catalog[emitted[k]], counts[emitted[k]],
         SelectSeq([i \in 1..Len(ids) |-> i],
                   LAMBDA i : ids[i] \in mentions[emitted[k]]))])

FallbackOver(content_items, ids) ==
  SortByFrequency(
    FallbackNarratives(content_items, ids, known_narratives, CatalogMentionTable,
      CatalogCounts(content_items, ids,
                    [c \in 1..Len(known_narratives) |->
                       Len(known_narratives[c].keywords)])))

_fallback_narrative_detection(content_items) ==
  FallbackOver(content_items,
    Eager([i \in 1..Len(content_items) |-> TextId(content_items[i].content)]))

\* TfidfVectorizer(ngram_range=(1, 2)): the unigrams and bigrams of a
\* document; token_pattern keeps tokens of two or more characters.  A term
\* is the list of its tokens.
TermsAt(doc) ==
  LET toks == SelectSeq(doc, LAMBDA w : Len(w) >= 2)
  IN [i \in 1..(2 * Len(toks) - (IF toks = <<>> THEN 0 ELSE 1)) |->
        IF i <= Len(toks) THEN <<toks[i]>>
        ELSE <<toks[i - Len(toks)], toks[i - Len(toks) + 1]>>]
Terms(doc) == Range(TermsAt(doc))
DocFreq(docs, term) ==
  Cardinality({d \in 1..Len(docs) : term \in Terms(docs[d])})

\* the fitted vocabulary: min_df=2 keeps a term found in at least 2
\* documents, max_df=0.8 one found in at most 0.8 * n_docs documents
Vocabulary(docs) ==
  {term \in UNION {Terms(docs[d]) : d \in 1..Len(docs)} :
     /\ DocFreq(docs, term) >= 2
     /\ 10 * DocFreq(docs, term) <= 8 * Len(docs)}

\* fit_transform raises ValueError ("After pruning, no terms remain") when
\* the vocabulary is empty
VectorizerRaises(docs) == Vocabulary(docs) = {}

\* a document's row of the tf-idf matrix, up to the positive factors idf
\* and 1/norm: the term counts over the vocabulary
TfRow(doc, vocabulary) == [term \in vocabulary |-> Occurrences(TermsAt(doc), term)]
\* the rows of the tf-idf matrix, one per document
RowsOf(docs, vocabulary) ==
  Eager([d \in 1..Len(docs) |-> TfRow(docs[d], vocabulary)])

\* cosine distance <= eps (0.3).  Two rows of the pooled corpora are equal
\* (distance 0, unless they are zero rows, which sklearn puts at distance
\* 1 from everything) or have disjoint support (distance 1).
WithinEps(rowA, rowB) == rowA = rowB /\ \E term \in DOMAIN rowA : rowA[term] # 0

\* DBSCAN's neighbourhoods: each point is in its own
Neighbourhoods(rows) ==
  [i \in 1..Len(rows) |->
     {j \in 1..Len(rows) : j = i \/ WithinEps(rows[i], rows[j])}]

\* min_samples=3: a core point has 3 points in its neighbourhood
CorePoints(nbr) == {i \in DOMAIN nbr : Cardinality(nbr[i]) >= 3}

\* the points labelled when a cluster is grown from the points of S
RECURSIVE DensityReachable(_, _, _)
DensityReachable(nbr, core, S) ==
  LET grown == S \cup UNION {nbr[i] : i \in S \cap core}
  IN IF grown = S THEN S ELSE DensityReachable(nbr, core, grown)

\* sklearn's dbscan_inner: points are visited in index order, an unlabelled
\* core point starts the next cluster, which takes the unlabelled points
\* density-reachable from it; the rest keep label -1
RECURSIVE AssignLabels(_, _, _, _, _)
AssignLabels(nbr, core, labels, i, label_num) ==
  IF i > Len(labels) THEN labels
  ELSE IF labels[i] # -1 \/ i \notin core
       THEN AssignLabels(nbr, core, labels, i + 1, label_num)
       ELSE LET reached == DensityReachable(nbr, core, {i})
                labelled == Eager([j \in 1..Len(labels) |->
                              IF j \in reached /\ labels[j] = -1
                              THEN label_num ELSE labels[j]])
            IN AssignLabels(nbr, core, labelled, i + 1, label_num + 1)

\* DBSCAN on the rows of the tf-idf matrix
\* DBSCAN(eps=0.3, min_samples=3, metric='cosine').fit_predict
fit_predict(docs) ==
  LET nbr == Eager(Neighbourhoods(RowsOf(docs, Vocabulary(docs))))
  IN AssignLabels(nbr, CorePoints(nbr), Eager([d \in 1..Len(docs) |-> -1]), 1, 0)

RECURSIVE SumSquares(_, _)
SumSquares(row, S) ==
  IF S = {} THEN 0
  ELSE LET x == CHOOSE y \in S : TRUE
       IN row[x] * row[x] + SumSquares(row, S \ {x})

\* The mean tf-idf row of a cluster of equal documents is the row of any
\* of them: the weight of a term is tf / sqrt(sum of tf^2).  weight > 0.01
WeightAbove001(row, term) ==
  10000 * row[term] * row[term] > SumSquares(row, DOMAIN row)

\* all orders of a finite set
RECURSIVE Orders(_)
Orders(S) ==
  IF S = {} THEN {<<>>}
  ELSE UNION {{<<x>> \o rest : rest \in Orders(S \ {x})} : x \in S}

\* cluster_tfidf.argsort()[-10:][::-1] filtered to weight > 0.01: the ten
\* heaviest terms, heaviest first.  numpy's argsort is not a stable sort, so
\* terms of equal weight may come in any order: every list it can give
TopKeywords(row, o) ==
  LET kept == SelectSeq(Take(o, 10), LAMBDA term : WeightAbove001(row, term))
  IN Eager([i \in 1..Len(kept) |-> Join(kept[i])])
KeywordChoices(row) ==
  {TopKeywords(row, o) :
     o \in {o \in Orders({term \in DOMAIN row : row[term] > 0}) :
              \A i \in 1..(Len(o) - 1) : row[o[i]] >= row[o[i + 1]]}}

\* the best-scoring catalog entry from entry c on, b being the best so far
\* (0 for none): score = overlap / len(narrative_keywords), an entry wins
\* when its score is above the best and above 0.3
RECURSIVE BestMatch(_, _, _, _)
BestMatch(overlap, size, c, b) ==
  IF c > Len(size) THEN b
  ELSE IF /\ (IF b = 0 THEN overlap[c] > 0
              ELSE overlap[c] * size[b] > overlap[b] * size[c])
          /\ 10 * overlap[c] > 3 * size[c]
       THEN BestMatch(overlap, size, c + 1, c)
       ELSE BestMatch(overlap, size, c + 1, b)

_match_known_narrative_by_count(keywords) ==
  LET best == BestMatch(
                Eager([c \in 1..Len(known_narratives) |->
                  Cardinality(Range(keywords)
                                \cap Range(known_narratives[c].keywords))]),
                Eager([c \in 1..Len(known_narratives) |-> 1]), 1, 0)
  IN IF best = 0 THEN <<>> ELSE DisplayName(known_narratives[best].name)
\* the display name of the best match, <<>> (the empty string) for none
_match_known_narrative(keywords) ==
  LET best == BestMatch(
                Eager([c \in 1..Len(known_narratives) |->
                  Cardinality(Range(keywords)
                                \cap Range(known_narratives[c].keywords))]),
                Eager([c \in 1..Len(known_narratives) |->
                  Len(known_narratives[c].keywords)]), 1, 0)
  IN IF best = 0 THEN <<>> ELSE DisplayName(known_narratives[best].name)

\* the indices (into content_items) of the items whose processed text has
\* at least 3 tokens, in order: processed_texts[k] comes from item
\* EligibleItems(content_items)[k]
EligibleItems(content_items) ==
  SelectSeq([i \in 1..Len(content_items) |-> i],
            LAMBDA i : Len(processed_of(content_items[i])) >= 3)

\* the cluster ids in the order  for cluster_id in set(cluster_labels)
\* visits them: CPython keeps a set of small non-negative ints in
\* increasing order
ClusterIds(cluster_labels) ==
  SelectSeq([k \in 1..Len(cluster_labels) |-> k - 1],
            LAMBDA c : c \in Range(cluster_labels))

\* the indices with a given label: enumerate(cluster_labels), counted from 1
ClusterIndices(cluster_labels, cluster_id) ==
  SelectSeq([i \in 1..Len(cluster_labels) |-> i],
            LAMBDA i : cluster_labels[i] = cluster_id)

\* the mean row of a cluster (of equal documents)
ClusterRow(docs, cluster_indices) ==
  TfRow(docs[cluster_indices[1]], Vocabulary(docs))

NarrativeName_first_keyword(keywords, matched) ==
  IF matched = <<>> THEN title(Join(Take(keywords, 1))) ELSE matched
\* narrative_name: the match, or " ".join(keywords[:2]).title()
NarrativeName(keywords, matched) ==
  IF matched = <<>> THEN title(Join(Take(keywords, 2))) ELSE matched

\* The Narrative of one cluster.  cluster_content is read from
\* content_items at the cluster's indices into processed_texts.  Beside
\* the fields of Narrative, members holds the indices of the items whose
\* documents are in the cluster.
ClusterNarrative(cluster_indices, keywords, content_items, eligible) ==
  [name |-> NarrativeName(keywords, _match_known_narrative(keywords)),
   keywords |-> keywords,
   confidence |-> Min(Len(cluster_indices) * 100, 1000),
   frequency |-> Len(cluster_indices),
   momentum |-> "steady",
   source_breakdown |->
     SourceCounter([i \in 1..Len(cluster_indices) |->
                      content_items[cluster_indices[i]]]),
   sample_content |->
     Take([i \in 1..Len(cluster_indices) |->
             Sample(content_items[cluster_indices[i]])], 3),
   timespan_data |-> <<>>,
   members |-> {eligible[cluster_indices[i]] : i \in 1..Len(cluster_indices)}]

ClusterNarratives_matched_only(cluster_labels, ids, content_items, eligible, keywordsOf) ==
  LET big == SelectSeq([k \in 1..Len(ids) |-> k],
               LAMBDA k : /\ Len(ClusterIndices(cluster_labels, ids[k])) >= 3
                          /\ _match_known_narrative(keywordsOf[k]) # <<>>)
  IN Eager([b \in 1..Len(big) |->
       ClusterNarrative(ClusterIndices(cluster_labels, ids[big[b]]),
                        keywordsOf[big[b]], content_items, eligible)])
\* the narratives of the clusters of at least 3 documents, in the order of
\* the cluster ids
ClusterNarratives(cluster_labels, ids, content_items, eligible, keywordsOf) ==
  LET big == SelectSeq([k \in 1..Len(ids) |-> k],
               LAMBDA k : Len(ClusterIndices(cluster_labels, ids[k])) >= 3)
  IN Eager([b \in 1..Len(big) |->
       ClusterNarrative(ClusterIndices(cluster_labels, ids[big[b]]),
                        keywordsOf[big[b]], content_items, eligible)])

\* keywordsOf[k] is the keyword list argsort gave for the k-th cluster id
_extract_narratives_from_clusters(cluster_labels, content_items, keywordsOf) ==
  SortByFrequency(
    ClusterNarratives(cluster_labels, ClusterIds(cluster_labels), content_items,
                      EligibleItems(content_items), keywordsOf))

\* the 7 buckets of _add_timespan_data, bucket i (0..6) from now - i days
\* to one day later; date is the day number of its start
TimeBuckets(clock) ==
  [b \in 1..7 |-> [date |-> (clock - 24 * (b - 1)) \div 24,
                   bucket_start |-> clock - 24 * (b - 1),
                   bucket_end |-> clock - 24 * (b - 1) + 24]]

\* datetime.fromisoformat raises for some item (the loop parses every
\* item as soon as there is one narrative)
TimespanRaises(narrs, content_items) ==
  /\ narrs # <<>>
  /\ \E i \in 1..Len(content_items) : ~ContentParse(content_items[i].timestamp).ok

\* the number of items stamped inside the bucket whose pooled text is one
\* of mentioning
CountIn(bucket, mentioning, content_items) ==
  Cardinality({i \in 1..Len(content_items) :
     /\ bucket.bucket_start <= ContentParse(content_items[i].timestamp).t
     /\ ContentParse(content_items[i].timestamp).t < bucket.bucket_end
     /\ TextId(content_items[i].content) \in mentioning})

BucketTrend_recent_four(timespan_data) ==
  LET recent_count == SumSeq([i \in 1..4 |-> timespan_data[i].count])
      older_count == SumSeq([i \in 1..3 |-> timespan_data[i + 4].count])
  IN IF 2 * recent_count > 3 * older_count THEN "accelerating"
     ELSE IF 2 * recent_count < older_count THEN "declining"
     ELSE "steady"
\* recent_count > older_count * 1.5, recent_count < older_count * 0.5
BucketTrend(timespan_data) ==
  LET recent_count == SumSeq([i \in 1..3 |-> timespan_data[i].count])
      older_count == SumSeq([i \in 1..4 |-> timespan_data[i + 3].count])
  IN IF 2 * recent_count > 3 * older_count THEN "accelerating"
     ELSE IF 2 * recent_count < older_count THEN "declining"
     ELSE "steady"

\* the time series of one narrative: a date and a count per bucket
TimespanData(time_buckets, keywords, content_items) ==
  Eager([b \in 1..Len(time_buckets) |->
           [date |-> time_buckets[b].date,
            count |-> CountIn(time_buckets[b], MentioningTexts(keywords),
                             content_items)]])

WithTimespanRefrequency(narrative, timespan_data) ==
  [narrative EXCEPT !.momentum = BucketTrend(timespan_data),
                    !.frequency = SumSeq([b \in 1..Len(timespan_data) |->
                                            timespan_data[b].count]),
                    !.timespan_data = timespan_data]
WithTimespan(narrative, timespan_data) ==
  [narrative EXCEPT !.momentum = BucketTrend(timespan_data),
                    !.timespan_data = timespan_data]

AddTimespan(narrs, content_items, time_buckets) ==
  Eager([k \in 1..Len(narrs) |->
           WithTimespan(narrs[k],
             TimespanData(time_buckets, narrs[k].keywords, content_items))])

\* defined when TimespanRaises is false
_add_timespan_data(narrs, content_items, clock) ==
  AddTimespan(narrs, content_items, TimeBuckets(clock))

\* the processed texts of at least 3 tokens, in input order
ProcessedTexts(content_items) ==
  SelectSeq([i \in 1..Len(content_items) |-> processed_of(content_items[i])],
            LAMBDA processed : Len(processed) >= 3)

\* the lists argsort can give for the clusters of a corpus, one list per
\* cluster id; <<>> when there is no cluster
ChoiceLists(choices) ==
  IF choices = <<>> THEN {<<>>}
  ELSE {f \in [1..Len(choices) -> UNION Range(choices)] :
          \A k \in 1..Len(choices) : f[k] \in choices[k]}
ClusterChoices(docs, cluster_labels, ids) ==
  ChoiceLists(Eager([k \in 1..Len(ids) |->
     KeywordChoices(ClusterRow(docs, ClusterIndices(cluster_labels, ids[k])))]))
LabelChoices(docs, cluster_labels) ==
  ClusterChoices(docs, cluster_labels, ClusterIds(cluster_labels))
CorpusChoices(docs) ==
  IF VectorizerRaises(docs) THEN {<<>>} ELSE LabelChoices(docs, fit_predict(docs))
ArgsortChoices(content_items) == CorpusChoices(ProcessedTexts(content_items))

\* What a call of extract_narratives_from_content does: raised tells
\* whether an exception left it, narratives is the returned list, and
\* vectorizer_invoked, clusterer_invoked and fallback_invoked record the
\* calls of fit_transform, fit_predict and _fallback_narrative_detection.
Outcome(raised, narrs, v, c, f) ==
  [raised |-> raised, narratives |-> narrs, vectorizer_invoked |-> v,
   clusterer_invoked |-> c, fallback_invoked |-> f]

\* the time series, unless a timestamp raises
Summarize(narrs, content_items, clock) ==
  IF TimespanRaises(narrs, content_items)
  THEN Outcome(TRUE, <<>>, TRUE, TRUE, FALSE)
  ELSE Outcome(FALSE, _add_timespan_data(narrs, content_items, clock),
               TRUE, TRUE, FALSE)

\* from the vectorizer on: fit_transform, fit_predict, the narratives of
\* the clusters and their time series
ClusterTexts(content_items, processed_texts, clock, keywordsOf) ==
  IF VectorizerRaises(processed_texts)
  THEN Outcome(TRUE, <<>>, TRUE, FALSE, FALSE)
  ELSE Summarize(_extract_narratives_from_clusters(fit_predict(processed_texts),
                                                   content_items, keywordsOf),
                 content_items, clock)
ClusterPath(content_items, clock, keywordsOf) ==
  ClusterTexts(content_items, ProcessedTexts(content_items), clock, keywordsOf)

extract_narratives_gate_off_by_one(content_items, clock, keywordsOf) ==
  IF content_items = <<>> THEN Outcome(FALSE, <<>>, FALSE, FALSE, FALSE)
  ELSE IF Len(ProcessedTexts(content_items)) < 4
  THEN Outcome(FALSE, _fallback_narrative_detection(content_items),
               FALSE, FALSE, TRUE)
  ELSE ClusterPath(content_items, clock, keywordsOf)
extract_narratives_fallback_with_series(content_items, clock, keywordsOf) ==
  IF content_items = <<>> THEN Outcome(FALSE, <<>>, FALSE, FALSE, FALSE)
  ELSE IF Len(ProcessedTexts(content_items)) < 5
  THEN Outcome(FALSE, _add_timespan_data(_fallback_narrative_detection(content_items),
                                         content_items, clock),
               FALSE, FALSE, TRUE)
  ELSE ClusterPath(content_items, clock, keywordsOf)
extract_narratives_unguarded(content_items, clock, keywordsOf) ==
  ClusterPath(content_items, clock, keywordsOf)
extract_narratives_from_content(content_items, clock, keywordsOf) ==
  IF content_items = <<>> THEN Outcome(FALSE, <<>>, FALSE, FALSE, FALSE)
  ELSE IF Len(ProcessedTexts(content_items)) < 5
  THEN Outcome(FALSE, _fallback_narrative_detection(content_items),
               FALSE, FALSE, TRUE)
  ELSE ClusterPath(content_items, clock, keywordsOf)

\* (recent_avg / max(older_avg, 1)) * confidence as a fraction num/den,
\* confidence in thousandths; 0 when there is no time series
_calculate_momentum_score(narrative) ==
  IF narrative.timespan_data = <<>> THEN [num |-> 0, den |-> 1]
  ELSE LET recent == SumSeq([i \in 1..Min(3, Len(narrative.timespan_data)) |->
                               narrative.timespan_data[i].count])
           older_days == Drop(narrative.timespan_data, 3)
           older == SumSeq([i \in 1..Len(older_days) |-> older_days[i].count])
           n_recent == Min(3, Len(narrative.timespan_data))
           n_older == Len(older_days)
       IN \* older_avg = older/n_older (1 when there are no older days)
          IF n_older > 0 /\ older > n_older
          THEN [num |-> recent * n_older * narrative.confidence,
                den |-> n_recent * older]
          ELSE [num |-> recent * narrative.confidence, den |-> n_recent]

RECURSIVE ProductSeq(_)
ProductSeq(s) == IF s = <<>> THEN 1 ELSE Head(s) * ProductSeq(Tail(s))

\* sorted(rising, key=lambda x: x['momentum_score'], reverse=True)[:5]; the
\* scores are compared over a common denominator, the product of the
\* distinct denominators
TopRising(rising, dens) ==
  LET common == ProductSeq(FirstOccurrences(dens))
      order == SortIdxDesc(Eager([k \in 1..Len(rising) |->
                 rising[k].momentum_score.num * (common \div dens[k])]))
  IN Take([k \in 1..Len(rising) |-> rising[order[k]]], 5)
RisingOf(accelerating) ==
  Eager([k \in 1..Len(accelerating) |->
           [name |-> accelerating[k].name,
            momentum_score |-> _calculate_momentum_score(accelerating[k]),
            frequency |-> accelerating[k].frequency,
            confidence |-> accelerating[k].confidence]])
RankRising(rising) ==
  TopRising(rising, Eager([k \in 1..Len(rising) |-> rising[k].momentum_score.den]))
_identify_rising_narratives_unfiltered(narrs) ==
  RankRising(RisingOf(narrs))
_identify_rising_narratives(narrs) ==
  RankRising(RisingOf(SelectSeq(narrs, LAMBDA n : n.momentum = "accelerating")))

\* Counter(handles).most_common(5) as a list of <<handle, count>>
MostCommonAccounts(handles, keys) ==
  LET counts == Eager([k \in 1..Len(keys) |-> Occurrences(handles, keys[k])])
      order == Take(SortIdxDesc(counts), 5)
  IN Eager([k \in 1..Len(order) |-> <<keys[order[k]], counts[order[k]]>>])
SummaryOf(content_items, handles) ==
  [total_sources |-> Cardinality(Range(handles)),
   source_breakdown |-> SourceCounter(content_items),
   top_accounts |-> MostCommonAccounts(handles, FirstOccurrences(handles))]
_create_source_summary(content_items) ==
  SummaryOf(content_items,
            Eager([i \in 1..Len(content_items) |-> content_items[i].source_handle]))

\* What a call of analyze_content on a file holding content_items does:
\* status "raised" when an exception leaves it, else "returned" with the
\* report; run holds the record of the extraction beside the report
Report(content_items, clock, run) ==
  IF run.raised
  THEN [status |-> "raised", run |-> run]
  ELSE [status |-> "returned",
        run |-> run,
        analysis_timestamp |-> clock,
        total_content_analyzed |-> Len(content_items),
        narratives_detected |-> Len(run.narratives),
        narratives |-> run.narratives,
        source_summary |-> _create_source_summary(content_items),
        rising_narratives |-> _identify_rising_narratives(run.narratives)]
analyze_content(content_items, clock, keywordsOf) ==
  Report(content_items, clock,
         extract_narratives_from_content(content_items, clock, keywordsOf))

(***************************************************************************)
(* Inputs of the signal variant                                            *)
(***************************************************************************)
MaxSignals == 3   \* length up to which any pool signal may be appended
MaxRepeat == 3    \* further copies of the last signal that may follow
MaxTicks == 1     \* later clock readings

\* the clock reading of the first call, in hours
Now0 == 20 * 24 + 15
\* the readings datetime.now() can give: the first call's and later days'
Clock == {Now0 + 24 * k : k \in 0..MaxTicks}

\* The signals a list is made of:
\*  - strong, ten hours old;
\*  - weak, twenty hours old, Z-suffixed timestamp;
\*  - strong, older than the one-week decay window;
\*  - no catalog keyword, timestamp in Twitter's created_at format;
\*  - no catalog keyword, stamped in the future;
\*  - "chain" holds the keyword "ai"; zero strength, +00:00 timestamp;
\*  - the same text, zero strength, far older than the decay window;
\*  - the same text, weak, twenty hours old;
\*  - no catalog keyword, no term of the other unmatched texts
SignalPool ==
  {[signal |-> TextDefi, strength |-> 100, source |-> "github",
    timestamp |-> [kind |-> "naive", t |-> Now0 - 10]],
   [signal |-> TextDefi, strength |-> 30, source |-> "twitter",
    timestamp |-> [kind |-> "zulu", t |-> Now0 - 20]],
   [signal |-> TextDefi, strength |-> 100, source |-> "web_search",
    timestamp |-> [kind |-> "naive", t |-> Now0 - 300]],
   [signal |-> TextHackathon, strength |-> 100, source |-> "twitter",
    timestamp |-> [kind |-> "bad", t |-> 0]],
   [signal |-> PoolTexts[3], strength |-> 100, source |-> "web_search",
    timestamp |-> [kind |-> "naive", t |-> Now0 + 100]],
   [signal |-> TextChain, strength |-> 0, source |-> "github",
    timestamp |-> [kind |-> "offset", t |-> Now0 - 10]],
   [signal |-> TextChain, strength |-> 0, source |-> "twitter",
    timestamp |-> [kind |-> "naive", t |-> Now0 - 400]],
   [signal |-> TextChain, strength |-> 30, source |-> "web_search",
    timestamp |-> [kind |-> "naive", t |-> Now0 - 20]],
   [signal |-> PoolTexts[9], strength |-> 30, source |-> "twitter",
    timestamp |-> [kind |-> "zulu", t |-> Now0 - 5]]}

(***************************************************************************)
(* Signal variant: the calls of detect                                     *)
(***************************************************************************)
SigInit ==
  /\ program = "signal"
  /\ now = Now0
  /\ signals = <<>>
  /\ narratives = <<>>
  /\ detected = FALSE
  /\ raw_content = <<>>
  /\ analysis = [status |-> "none"]
  /\ argsortMemo = <<>>
  /\ analysis_file = [absent |-> TRUE]
  /\ narrative_data = [none |-> TRUE]
  /\ last_update = <<>>
  /\ loop = 0
  /\ requests = <<>>
  /\ pipeline = [pc |-> "idle"]

\* run_detection (src/src/main.py) has fetched one more signal than the
\* last run had, and calls detect on the longer list
DetectMore ==
  \E s \in SignalPool, clock \in Clock :
    /\ program = "signal"
    /\ clock >= now
    /\ \/ Len(signals) < MaxSignals
       \/ /\ Len(signals) >= MaxSignals
          /\ Len(signals) < MaxSignals + MaxRepeat
          /\ s = signals[Len(signals)]
    /\ signals' = Append(signals, s)
    /\ now' = clock
    /\ narratives' = detect(Append(signals, s), clock)
    /\ detected' = TRUE
    /\ UNCHANGED <<program, contentVars, serverVars>>

\* detect is called again on the same list, at the same or a later time
DetectAgain ==
  \E clock \in Clock :
    /\ program = "signal"
    /\ clock >= now
    /\ signals' = signals
    /\ now' = clock
    /\ narratives' = detect(signals, clock)
    /\ detected' = TRUE
    /\ UNCHANGED <<program, contentVars, serverVars>>

SigNext == DetectMore \/ DetectAgain

(***************************************************************************)
(* Inputs of the content variant                                           *)
(***************************************************************************)
MaxItems == 4          \* length up to which any pool item may be appended
MaxRepeatItems == 10   \* further copies of the last item that may follow

\* The items a file is made of:
\*  - four tokens, ten hours old;
\*  - three tokens, between five and six days old, +00:00 timestamp;
\*  - the same text with a timestamp that is not ISO-8601;
\*  - one token after normalization, Z-suffixed timestamp five hours ahead;
\*  - three keywords of one catalog entry, two of them in hashtags, which
\*    the normalization removes; thirty hours old
ItemPool ==
  {[content |-> TextGame, source_type |-> "twitter",
    source_handle |-> "aeyakovenko",
    timestamp |-> [kind |-> "naive", t |-> Now0 - 10]],
   [content |-> TextHackTag, source_type |-> "event",
    source_handle |-> "SolanaFndn",
    timestamp |-> [kind |-> "offset", t |-> Now0 - 130]],
   [content |-> TextHackTag, source_type |-> "twitter",
    source_handle |-> "aeyakovenko",
    timestamp |-> [kind |-> "bad", t |-> 0]],
   [content |-> TextAgent, source_type |-> "podcast",
    source_handle |-> "SolanaFndn",
    timestamp |-> [kind |-> "zulu", t |-> Now0 + 5]],
   [content |-> TextDefiTags, source_type |-> "youtube",
    source_handle |-> "SolanaFndn",
    timestamp |-> [kind |-> "naive", t |-> Now0 - 30]]}

(***************************************************************************)
(* Content variant: the calls of analyze_content                           *)
(***************************************************************************)
ContentInit ==
  /\ program = "content"
  /\ now = Now0
  /\ raw_content = <<>>
  /\ analysis = [status |-> "none"]
  /\ argsortMemo = <<>>
  /\ signals = <<>>
  /\ narratives = <<>>
  /\ detected = FALSE
  /\ analysis_file = [absent |-> TRUE]
  /\ narrative_data = [none |-> TRUE]
  /\ last_update = <<>>
  /\ loop = 0
  /\ requests = <<>>
  /\ pipeline = [pc |-> "idle"]

\* the ingestion has saved one more item than the last run read, and
\* analyze_content is called on the longer list
AnalyzeMore ==
  \E item \in ItemPool, clock \in Clock :
    /\ program = "content"
    /\ clock >= now
    /\ \/ Len(raw_content) < MaxItems
       \/ /\ Len(raw_content) >= MaxItems
          /\ Len(raw_content) < MaxItems + MaxRepeatItems
          /\ item = raw_content[Len(raw_content)]
    /\ raw_content' = Append(raw_content, item)
    /\ now' = clock
    /\ \E keywordsOf \in ArgsortChoices(Append(raw_content, item)) :
         /\ analysis' = analyze_content(Append(raw_content, item), clock, keywordsOf)
         /\ argsortMemo' = IF analysis'.run.clusterer_invoked THEN keywordsOf ELSE <<>>
    /\ UNCHANGED <<program, sigVars, serverVars>>

\* analyze_content is called again on the same file, at the same or a
\* later time; argsort gives what it gave for the same arrays
AnalyzeAgain ==
  \E clock \in Clock :
    /\ program = "content"
    /\ clock >= now
    /\ raw_content' = raw_content
    /\ now' = clock
    /\ analysis' = analyze_content(raw_content, clock, argsortMemo)
    /\ argsortMemo' = argsortMemo
    /\ UNCHANGED <<program, sigVars, serverVars>>

ContentNext == AnalyzeMore \/ AnalyzeAgain

(***************************************************************************)
(* Serving layer (src/server.py) and command-line pipeline (src/main.py)   *)
(***************************************************************************)
MaxRequests == 2   \* get_latest_data calls that may be in progress at once

\* UPDATE_INTERVAL = 3600 seconds, in hours
UPDATE_INTERVAL == 1

\* What datetime.now() can read in the server: the times of Clock and the
\* time exactly UPDATE_INTERVAL after the first one
ServerClock == Clock \cup {Now0 + UPDATE_INTERVAL}

\* What ingest_all_content can return: nothing, three items (one post seen
\* twice and another one), or five copies of one post.  The ingestion
\* stamps every item with a naive ISO timestamp.
Feeds ==
  LET game == CHOOSE i \in ItemPool : i.content = TextGame
      defi == CHOOSE i \in ItemPool : i.content = TextDefiTags
  IN {<<>>, <<game, game, defi>>, <<game, game, game, game, game>>}

\* _get_demo_data: a fixed narrative set stamped with the time of the call
_get_demo_data(clock) == [demo |-> TRUE, analysis_timestamp |-> clock]

\* The dictionary analyze_content returns, which json.dump writes and
\* json.load reads back with the same keys and values (tuples come back as
\* lists, both sequences here); no dictionary when the call raises.
AnalysisResults ==
  [f \in Feeds |-> [c \in ServerClock |->
     {IF a.status = "raised" THEN [raised |-> TRUE]
      ELSE [analysis_timestamp |-> a.analysis_timestamp,
            total_content_analyzed |-> a.total_content_analyzed,
            narratives_detected |-> a.narratives_detected,
            narratives |-> a.narratives,
            source_summary |-> a.source_summary,
            rising_narratives |-> a.rising_narratives] :
      a \in {analyze_content(f, c, k) : k \in ArgsortChoices(f)}}]]

\* the test of get_latest_data: force_refresh, no data in memory, no
\* refresh recorded, or the last one more than UPDATE_INTERVAL before clock
RefreshNeeded_at_interval(force_refresh, clock) ==
  \/ force_refresh
  \/ narrative_data = [none |-> TRUE]
  \/ last_update = <<>>
  \/ (last_update # <<>> /\ clock - last_update[1] >= UPDATE_INTERVAL)
RefreshNeeded(force_refresh, clock) ==
  \/ force_refresh
  \/ narrative_data = [none |-> TRUE]
  \/ last_update = <<>>
  \/ (last_update # <<>> /\ clock - last_update[1] > UPDATE_INTERVAL)

Suspended_after_save == {"idle", "awaiting", "analyze"}
\* The positions at which a get_latest_data coroutine is off the event
\* loop: before its call, after its return, and at its one await (the
\* ingestion).  From the resumption to the return nothing awaits.
Suspended == {"idle", "awaiting"}

\* a call that is not in progress: its locals ended with it
NoCall ==
  [pc |-> "idle", force_refresh |-> FALSE, now |-> Now0,
   content |-> <<>>, result |-> [none |-> TRUE]]

\* the server after startup_event: demo data in memory, no refresh yet;
\* data/narrative_analysis.json absent or left by an earlier session
ServerInit ==
  /\ program = "server"
  /\ now = Now0
  /\ raw_content = <<>>
  /\ analysis_file \in {[absent |-> TRUE]} \cup
       UNION {AnalysisResults[f][Now0] \ {[raised |-> TRUE]} : f \in Feeds \ {<<>>}}
  /\ narrative_data = _get_demo_data(Now0)
  /\ last_update = <<>>
  /\ loop = 0
  /\ requests = [r \in 1..MaxRequests |-> NoCall]
  /\ pipeline = [pc |-> "idle", content |-> <<>>, result |-> [none |-> TRUE]]
  /\ analysis = [status |-> "none"]
  /\ argsortMemo = <<>>
  /\ signals = <<>>
  /\ narratives = <<>>
  /\ detected = FALSE

\* One step of request r's get_latest_data.  The event loop runs one
\* coroutine at a time: r steps when the loop is free and r is suspended,
\* or when r holds the loop; r gives the loop up where it suspends.
get_latest_data(r) ==
  /\ program = "server"
  /\ loop = IF requests[r].pc \in Suspended THEN 0 ELSE r
  /\ UNCHANGED <<program, now, sigVars, analysis, argsortMemo, pipeline>>
  /\ \/ \* the call: now is read and the test made; the ingestion is awaited
        \* when a refresh is needed
        \E force_refresh \in BOOLEAN :
          /\ requests[r].pc = "idle"
          /\ requests' = [requests EXCEPT
               ![r].pc = IF RefreshNeeded(force_refresh, now) THEN "awaiting" ELSE "cached",
               ![r].force_refresh = force_refresh,
               ![r].now = now]
          /\ UNCHANGED <<raw_content, analysis_file, narrative_data, last_update>>
     \/ \* no refresh: return narrative_data
        /\ requests[r].pc = "cached"
        /\ requests' = [requests EXCEPT ![r] = NoCall]
        /\ UNCHANGED <<raw_content, analysis_file, narrative_data, last_update>>
     \/ \* the ingestion returns content
        \E feed \in Feeds :
          /\ requests[r].pc = "awaiting"
          /\ requests' = [requests EXCEPT ![r].pc = "save", ![r].content = feed]
          /\ UNCHANGED <<raw_content, analysis_file, narrative_data, last_update>>
     \/ \* save_raw_data(content)
        /\ requests[r].pc = "save"
        /\ raw_content' = requests[r].content
        /\ requests' = [requests EXCEPT ![r].pc = "analyze", ![r].content = <<>>]
        /\ UNCHANGED <<analysis_file, narrative_data, last_update>>
     \/ \* analyze_content() reads data/raw_content.json; it returns or raises
        \E result \in AnalysisResults[raw_content][now] :
          /\ requests[r].pc = "analyze"
          /\ requests' = [requests EXCEPT
               ![r].pc = IF result = [raised |-> TRUE] THEN "except" ELSE "persist",
               ![r].result = IF result = [raised |-> TRUE] THEN [none |-> TRUE] ELSE result]
          /\ UNCHANGED <<raw_content, analysis_file, narrative_data, last_update>>
     \/ \* json.dump(analysis_result) into data/narrative_analysis.json
        /\ requests[r].pc = "persist"
        /\ analysis_file' = requests[r].result
        /\ requests' = [requests EXCEPT ![r].pc = "publish"]
        /\ UNCHANGED <<raw_content, narrative_data, last_update>>
     \/ \* narrative_data = analysis_result; last_update = now; return
        /\ requests[r].pc = "publish"
        /\ narrative_data' = requests[r].result
        /\ last_update' = <<requests[r].now>>
        /\ requests' = [requests EXCEPT ![r] = NoCall]
        /\ UNCHANGED <<raw_content, analysis_file>>
     \/ \* except Exception: the persisted analysis, else demo data; return
        /\ requests[r].pc = "except"
        /\ narrative_data' = IF analysis_file # [absent |-> TRUE] THEN analysis_file
                             ELSE _get_demo_data(now)
        /\ requests' = [requests EXCEPT ![r] = NoCall]
        /\ UNCHANGED <<raw_content, analysis_file, last_update>>
  /\ loop' = IF requests'[r].pc \in Suspended THEN 0 ELSE r

\* One step of run_full_pipeline, a process of its own beside the server
run_full_pipeline ==
  /\ program = "server"
  /\ UNCHANGED <<program, now, sigVars, analysis, argsortMemo, serverMemory>>
  /\ \/ \* the call: the ingestion is awaited
        /\ pipeline.pc = "idle"
        /\ pipeline' = [pipeline EXCEPT !.pc = "awaiting"]
        /\ UNCHANGED <<raw_content, analysis_file>>
     \/ \* the ingestion returns: no content ends the run with False
        \E feed \in Feeds :
          /\ pipeline.pc = "awaiting"
          /\ pipeline' = [pipeline EXCEPT !.pc = IF feed = <<>> THEN "idle" ELSE "save",
                                          !.content = feed]
          /\ UNCHANGED <<raw_content, analysis_file>>
     \/ \* save_raw_data(content)
        /\ pipeline.pc = "save"
        /\ raw_content' = pipeline.content
        /\ pipeline' = [pipeline EXCEPT !.pc = "analyze", !.content = <<>>]
        /\ UNCHANGED analysis_file
     \/ \* analyze_content(): an exception ends the run with False
        \E result \in AnalysisResults[raw_content][now] :
          /\ pipeline.pc = "analyze"
          /\ pipeline' = [pipeline EXCEPT
               !.pc = IF result = [raised |-> TRUE] THEN "idle" ELSE "persist",
               !.result = IF result = [raised |-> TRUE] THEN [none |-> TRUE] ELSE result]
          /\ UNCHANGED <<raw_content, analysis_file>>
     \/ \* the analysis file is written, the report generated; True
        /\ pipeline.pc = "persist"
        /\ analysis_file' = pipeline.result
        /\ pipeline' = [pipeline EXCEPT !.pc = "idle", !.result = [none |-> TRUE]]
        /\ UNCHANGED raw_content

\* datetime.now() reads a later time
Tick ==
  \E clock \in ServerClock :
    /\ program = "server"
    /\ clock > now
    /\ now' = clock
    /\ UNCHANGED <<program, sigVars, contentVars, serverVars>>

ServerNext == (\E r \in 1..MaxRequests : get_latest_data(r)) \/ run_full_pipeline \/ Tick

(***************************************************************************)
(* The trend of a time series and the taxonomy match of a keyword list,    *)
(* each applied to inputs drawn from bounded sets                          *)
(***************************************************************************)
MaxBucketCount == 3   \* items counted in one bucket
MaxKeywords == 5      \* length of a candidate keyword list
MaxNarratives == 6    \* length of a narrative list handed to the ranking

\* the time series, the candidate keyword lists and the narrative lists
\* the three steps are applied to: every vector of 7 counts up to the
\* bound, the vector [10,9,8,1,1,1,0]; every list of catalog keywords of
\* three entries and of one word of no entry; every list of narratives
\* with one of five time series, each with the trend the momentum step
\* gives it and a confidence of its own
UnitInit ==
  /\ program = "unit"
  /\ now = Now0
  /\ analysis \in
       {[status |-> "timespan",
         timespan_data |-> [b \in 1..7 |-> [date |-> TimeBuckets(Now0)[b].date,
                                            count |-> counts[b]]]] :
          counts \in [1..7 -> 0..MaxBucketCount] \cup {<<10, 9, 8, 1, 1, 1, 0>>}}
       \cup
       {[status |-> "keywords", keywords |-> keywords] :
          keywords \in UNION {[1..n ->
             {known_narratives[3].keywords[1], known_narratives[3].keywords[5],
              known_narratives[5].keywords[1], known_narratives[5].keywords[2],
              known_narratives[7].keywords[1], known_narratives[7].keywords[2],
              known_narratives[7].keywords[3], <<"s","o","l","a","n","a">>}] :
             n \in 0..MaxKeywords}}
       \cup
       {[status |-> "narratives", narratives |-> narrs] :
          narrs \in UNION {[1..n ->
             {[name |-> <<"N", c.name>>, confidence |-> c.confidence,
               frequency |-> c.counts[1] + c.counts[2] + c.counts[3] + 3,
               momentum |-> BucketTrend([b \in 1..7 |-> [count |-> c.counts[b]]]),
               timespan_data |-> [b \in 1..7 |-> [date |-> TimeBuckets(Now0)[b].date,
                                                  count |-> c.counts[b]]]] :
              c \in {[name |-> "a", confidence |-> 300, counts |-> <<3, 0, 0, 0, 0, 0, 0>>],
                     [name |-> "b", confidence |-> 700, counts |-> <<0, 3, 3, 1, 0, 0, 0>>],
                     [name |-> "c", confidence |-> 1000, counts |-> <<6, 6, 6, 2, 2, 2, 2>>],
                     [name |-> "d", confidence |-> 400, counts |-> <<0, 0, 0, 1, 1, 1, 1>>],
                     [name |-> "e", confidence |-> 300, counts |-> <<0, 0, 3, 0, 0, 0, 0>>]}}] :
             n \in 0..MaxNarratives}}
  /\ raw_content = <<>>
  /\ argsortMemo = <<>>
  /\ signals = <<>>
  /\ narratives = <<>>
  /\ detected = FALSE
  /\ analysis_file = [absent |-> TRUE]
  /\ narrative_data = [none |-> TRUE]
  /\ last_update = <<>>
  /\ loop = 0
  /\ requests = <<>>
  /\ pipeline = [pc |-> "idle"]

\* the momentum step of _add_timespan_data on one time series
CalculateMomentum ==
  /\ program = "unit"
  /\ analysis.status = "timespan"
  /\ analysis' = [status |-> "momentum",
                  timespan_data |-> analysis.timespan_data,
                  momentum |-> BucketTrend(analysis.timespan_data)]
  /\ UNCHANGED <<program, now, sigVars, raw_content, argsortMemo, serverVars>>

\* _match_known_narrative on one candidate keyword list
MatchKeywords ==
  /\ program = "unit"
  /\ analysis.status = "keywords"
  /\ analysis' = [status |-> "matched",
                  keywords |-> analysis.keywords,
                  narrative_name |-> _match_known_narrative(analysis.keywords)]
  /\ UNCHANGED <<program, now, sigVars, raw_content, argsortMemo, serverVars>>

\* _identify_rising_narratives on one list of narratives
IdentifyRising ==
  /\ program = "unit"
  /\ analysis.status = "narratives"
  /\ analysis' = [status |-> "rising",
                  narratives |-> analysis.narratives,
                  rising_narratives |-> _identify_rising_narratives(analysis.narratives)]
  /\ UNCHANGED <<program, now, sigVars, raw_content, argsortMemo, serverVars>>

UnitNext == CalculateMomentum \/ MatchKeywords \/ IdentifyRising

(***************************************************************************)
(* Specifications                                                          *)
(***************************************************************************)
\* a behaviour is a run of one of the two programs
Init == SigInit \/ ContentInit
Next == DetectMore \/ DetectAgain \/ AnalyzeMore \/ AnalyzeAgain
Spec == Init /\ [][Next]_vars

\* the signal variant alone
SpecSignal == SigInit /\ [][SigNext]_vars

\* the content variant alone
SpecContent == ContentInit /\ [][ContentNext]_vars


\* the server and the command-line pipeline sharing the data directory
SpecServer == ServerInit /\ [][ServerNext]_vars

\* the momentum step and the taxonomy matcher on their own
SpecUnits == UnitInit /\ [][UnitNext]_vars


(***************************************************************************)
(* Properties                                                              *)
(***************************************************************************)
\* the signals a signal-variant narrative was created from
MemberSignals(narrative) ==
  [i \in 1..Len(narrative.members) |-> signals[narrative.members[i]]]
\* analyze_content has been called and has returned its report
Returned == program = "content" /\ analysis.status = "returned"
\* the narratives of the last report, none when there is no report
Reported == IF Returned THEN analysis.narratives ELSE <<>>

\* C1: in the content variant, whenever fewer than 5 items have a
\* normalized text of at least 3 tokens, the call returns without invoking
\* the vectorizer or the clusterer, and its narratives are those of the
\* keyword-counting fallback over all the input items, the short ones
\* included.
FallbackBelowFiveEligible ==
  (program = "content" /\ analysis.status # "none"
     /\ Len(ProcessedTexts(raw_content)) < 5)
  => /\ analysis.status = "returned"
     /\ ~analysis.run.vectorizer_invoked
     /\ ~analysis.run.clusterer_invoked
     /\ analysis.narratives = _fallback_narrative_detection(raw_content)
\* a fallback run with fewer than 5 eligible items whose narrative counts an
\* item that was filtered out as too short
FallbackCountsShortItem ==
  /\ Returned
  /\ Len(ProcessedTexts(raw_content)) < 5
  /\ analysis.run.fallback_invoked
  /\ \E k \in 1..Len(analysis.narratives) :
       \E i \in analysis.narratives[k].members :
          Len(processed_of(raw_content[i])) < 3

\* C2: with zero input items detect returns an empty list, and
\* analyze_content returns (no exception) a report with an empty narrative
\* list and a narrative count of 0.
EmptyInputEmptyOutput ==
  /\ (program = "signal" /\ detected /\ signals = <<>>) => narratives = <<>>
  /\ (program = "content" /\ analysis.status # "none" /\ raw_content = <<>>)
     => /\ analysis.status = "returned"
        /\ analysis.narratives = <<>>
        /\ analysis.narratives_detected = 0
\* analyze_content has run on an empty file
AnalyzedEmptyFile ==
  program = "content" /\ analysis.status # "none" /\ raw_content = <<>>

\* C3: every narrative of the signal variant, of the cluster path and of
\* the keyword fallback has a confidence between 0 and 1 (0..1000
\* thousandths), whatever the number of items, sources and occurrences.
ConfidenceInUnitInterval ==
  /\ \A k \in 1..Len(narratives) :
        narratives[k].confidence >= 0 /\ narratives[k].confidence <= 1000
  /\ \A k \in 1..Len(Reported) :
        Reported[k].confidence >= 0 /\ Reported[k].confidence <= 1000
\* a signal narrative of more signals than the count term saturates at,
\* with a confidence near the top of the range
ConfidenceSaturated ==
  \E k \in 1..Len(narratives) :
     narratives[k].signal_count > 5 /\ narratives[k].confidence > 900

\* C4: the momentum_score of every narrative detect returns is >= 0,
\* whether the timestamps parse or not and lie in the past or the future,
\* and so is the momentum score of every rising narrative of a report.
MomentumNonNegative ==
  /\ \A k \in 1..Len(narratives) : narratives[k].momentum_score >= 0
  /\ Returned =>
       \A k \in 1..Len(analysis.rising_narratives) :
          /\ analysis.rising_narratives[k].momentum_score.den > 0
          /\ analysis.rising_narratives[k].momentum_score.num >= 0
\* a narrative one of whose signals is older than the one-week decay window
MomentumOfStaleSignal ==
  \E k \in 1..Len(narratives) :
     \E i \in 1..Len(narratives[k].members) :
        /\ SigParse(MemberSignals(narratives[k])[i].timestamp).ok
        /\ ~SigParse(MemberSignals(narratives[k])[i].timestamp).aware
        /\ now - SigParse(MemberSignals(narratives[k])[i].timestamp).t > 168

\* C5: in the signal variant a narrative of fewer than 3 signals has the
\* trend "emerging", whatever the strengths and timestamps of its signals.
FewSignalsEmerging ==
  \A k \in 1..Len(narratives) :
     narratives[k].signal_count < 3 => narratives[k].momentum_trend = "emerging"
\* a narrative of exactly 2 signals whose strength ratio, had it been
\* computed, would classify it as accelerating
TwoSignalsRisingStrength ==
  \E k \in 1..Len(narratives) :
     /\ narratives[k].signal_count = 2
     /\ StrengthTrend(MemberSignals(narratives[k])) = "accelerating"

\* what C6 names of a signal-variant result: per narrative (by name, the
\* order of the list is by momentum) its count, confidence and trend
SignalFigures(narrs) ==
  {[name |-> narrs[k].name, signal_count |-> narrs[k].signal_count,
    confidence |-> narrs[k].confidence,
    momentum_trend |-> narrs[k].momentum_trend] : k \in 1..Len(narrs)}
SignalScores(narrs) ==
  {[name |-> narrs[k].name, momentum_score |-> narrs[k].momentum_score]
     : k \in 1..Len(narrs)}
\* what C6 names of a content-variant result: whether the call returned
\* and per narrative its name, keywords, frequency and confidence
ContentFigures(a) ==
  IF a.status = "returned"
  THEN [k \in 1..Len(a.narratives) |->
          [name |-> a.narratives[k].name, keywords |-> a.narratives[k].keywords,
           frequency |-> a.narratives[k].frequency,
           confidence |-> a.narratives[k].confidence]]
  ELSE <<a.status>>
ContentTrends(a) ==
  IF a.status = "returned"
  THEN [k \in 1..Len(a.narratives) |->
          [momentum |-> a.narratives[k].momentum,
           timespan_data |-> a.narratives[k].timespan_data]]
  ELSE <<a.status>>
SignalRerun == program = "signal" /\ detected /\ signals' = signals
ContentRerun ==
  program = "content" /\ analysis.status # "none" /\ raw_content' = raw_content

\* C6 as stated: a second run on the identical input list gives identical
\* keyword sets, frequencies, confidence values and momentum scores and
\* trends, whenever it is executed.
RerunIndependentOfClock ==
  [][/\ SignalRerun => /\ SignalFigures(narratives') = SignalFigures(narratives)
                       /\ SignalScores(narratives') = SignalScores(narratives)
     /\ ContentRerun => /\ ContentFigures(analysis') = ContentFigures(analysis)
                        /\ ContentTrends(analysis') = ContentTrends(analysis)]_vars
\* C6, amended: a second run on the identical input list gives identical
\* names, keyword sets, frequencies and confidence values, and in the signal
\* variant identical trends, whenever it is executed; the signal momentum
\* scores and the content trends and time series are those of the first run
\* when the clock reads the same.
RerunSameFigures ==
  [][/\ SignalRerun => /\ SignalFigures(narratives') = SignalFigures(narratives)
                       /\ now' = now =>
                            SignalScores(narratives') = SignalScores(narratives)
     /\ ContentRerun => /\ ContentFigures(analysis') = ContentFigures(analysis)
                        /\ now' = now =>
                             ContentTrends(analysis') = ContentTrends(analysis)]_vars
\* a report made on a later day, with a time series that the same file
\* analyzed at the first clock reading would not have had
ReportOfLaterDay ==
  /\ Returned
  /\ now > Now0
  /\ analysis.run.clusterer_invoked
  /\ ContentTrends(analysis)
       # ContentTrends(analyze_content(raw_content, Now0, argsortMemo))

\* one more signal was fetched and detect has run on the longer list
SignalAdded == program = "signal" /\ detected /\ Len(signals') = Len(signals) + 1
\* the narrative of the new result that carries the name, as a set
Renewed(name) ==
  {j \in 1..Len(narratives') : narratives'[j].name = name}
\* the narrative is still emitted, with no smaller a count and, when its
\* mean strength is the same, no smaller a confidence
NotDecreased(narrative) ==
  \E j \in Renewed(narrative.name) :
     /\ narratives'[j].signal_count >= narrative.signal_count
     /\ (narratives'[j].avg_strength.num * narrative.avg_strength.den
           = narrative.avg_strength.num * narratives'[j].avg_strength.den)
        => narratives'[j].confidence >= narrative.confidence

\* C7 as stated: adding one more signal never decreases the signal_count
\* of a narrative emitted before, nor its confidence when its mean strength
\* is unchanged, for catalog and "Emerging: " narratives alike.
AddingNeverDecreases ==
  [][SignalAdded => \A k \in 1..Len(narratives) : NotDecreased(narratives[k])]_vars
\* C7, amended: adding one more signal never decreases the signal_count of
\* a catalog narrative emitted before, nor its confidence when its mean
\* strength is unchanged; an "Emerging: " narrative is named after the most
\* common keywords of the unmatched signals and can lose its name.
AddingNeverDecreasesCatalog ==
  [][SignalAdded =>
       \A k \in 1..Len(narratives) :
          narratives[k].name.prefix # "Emerging: " => NotDecreased(narratives[k])]_vars
\* a catalog narrative past the saturation of the count term, whose last
\* signal is the latest of the input and left its mean strength unchanged
CatalogNarrativeGrown ==
  \E k \in 1..Len(narratives) :
     /\ narratives[k].name.prefix # "Emerging: "
     /\ narratives[k].signal_count >= 6
     /\ narratives[k].members[narratives[k].signal_count] = Len(signals)
     /\ narratives[k].avg_strength.num
          = narratives[k].avg_strength.den * signals[Len(signals)].strength

\* C8: on every path the reported frequency of a narrative (signal_count
\* in the signal variant) equals the number of input items or signals that
\* contributed to it.
FrequencyCountsContributors ==
  /\ \A k \in 1..Len(narratives) :
        narratives[k].signal_count = Cardinality(Range(narratives[k].members))
  /\ \A k \in 1..Len(Reported) :
        Reported[k].frequency = Cardinality(Reported[k].members)

\* C9: an item whose timestamp does not parse never aborts the run of the
\* content variant: once the clusters are found, analyze_content returns
\* its report, every narrative with its 7-bucket time series.
BadTimestampNeverAborts ==
  (program = "content" /\ analysis.status # "none"
     /\ analysis.run.clusterer_invoked
     /\ \E i \in 1..Len(raw_content) : ~ContentParse(raw_content[i].timestamp).ok)
  => /\ analysis.status = "returned"
     /\ \A k \in 1..Len(analysis.narratives) :
           Len(analysis.narratives[k].timespan_data) = 7

\* C10: the 7 buckets of a run are contiguous daily windows that trail the
\* clock reading of the run: the latest ends at it, and an item stamped
\* within the last 24 hours is counted in the most recent bucket of every
\* narrative it mentions.
BucketsTrailNow ==
  (Returned /\ analysis.run.clusterer_invoked)
  => /\ \A b \in 1..6 :
          TimeBuckets(now)[b + 1].bucket_end = TimeBuckets(now)[b].bucket_start
     /\ \A b \in 1..7 :
          TimeBuckets(now)[b].bucket_end = TimeBuckets(now)[b].bucket_start + 24
     /\ TimeBuckets(now)[1].bucket_end = now
     /\ \A k \in 1..Len(analysis.narratives) :
          analysis.narratives[k].timespan_data[1].count
            = Cardinality({i \in 1..Len(raw_content) :
                 /\ ContentParse(raw_content[i].timestamp).t > now - 24
                 /\ ContentParse(raw_content[i].timestamp).t <= now
                 /\ MentionsAny(raw_content[i], analysis.narratives[k].keywords)})

\* the clusters DBSCAN finds in the file, each as the set of the items whose
\* documents it holds, those of at least 3 documents
FoundClusters ==
  LET labels == fit_predict(ProcessedTexts(raw_content))
      eligible == EligibleItems(raw_content)
  IN {members \in {{eligible[i] : i \in {j \in 1..Len(labels) : labels[j] = c}}
                     : c \in Range(labels) \ {-1}} :
        Cardinality(members) >= 3}
\* the signal matches no keyword of the catalog
Unmatched(signal) == CatalogMatchTable[TextId(signal.signal)] = 0

OnlyDefiIn(catalog) ==
  {t \in 1..Len(LowerTable) :
     /\ Contains(LowerTable[t], <<"d","e","f","i">>)
     /\ Contains(LowerTable[t], <<"y","i","e","l","d">>)
     /\ Contains(LowerTable[t], <<"l","i","q","u","i","d","i","t","y">>)
     /\ \A c \in 1..Len(catalog) :
          (\E j \in 1..Len(catalog[c].keywords) :
              Contains(LowerTable[t], catalog[c].keywords[j]))
          => <<"d","e","f","i">> \in Range(catalog[c].keywords)}
DefiSignalTexts == OnlyDefiIn(narrative_keywords)
DefiItemTexts == OnlyDefiIn(known_narratives)
\* the DeFi entry of a catalog
DefiEntry(catalog) ==
  CHOOSE c \in 1..Len(catalog) : <<"d","e","f","i">> \in Range(catalog[c].keywords)

\* C12: given exactly 3 items whose text holds "defi", "yield" and
\* "liquidity" and no other catalog keyword, the engine returns exactly one
\* narrative, under the catalog name of the DeFi entry, with frequency 3
\* (signal_count 3 in the signal variant).
ThreeDefiItemsOneNarrative ==
  /\ (program = "signal" /\ detected /\ Len(signals) = 3
        /\ \A i \in 1..Len(signals) : TextId(signals[i].signal) \in DefiSignalTexts)
     => /\ Len(narratives) = 1
        /\ narratives[1].name
             = [prefix |-> narrative_keywords[DefiEntry(narrative_keywords)].name,
                term |-> <<>>]
        /\ narratives[1].signal_count = 3
  /\ (program = "content" /\ analysis.status # "none" /\ Len(raw_content) = 3
        /\ \A i \in 1..Len(raw_content) :
              TextId(raw_content[i].content) \in DefiItemTexts)
     => /\ analysis.status = "returned"
        /\ Len(analysis.narratives) = 1
        /\ analysis.narratives[1].name
             = DisplayName(known_narratives[DefiEntry(known_narratives)].name)
        /\ analysis.narratives[1].frequency = 3

\* the indices of the signals that match no catalog keyword, in order, and
\* the keywords _extract_keywords finds in them
UnmatchedIdx ==
  SelectSeq([i \in 1..Len(signals) |-> i], LAMBDA i : Unmatched(signals[i]))
UnmatchedKeywords ==
  Concat([i \in 1..Len(UnmatchedIdx) |->
            KeywordsTable[TextId(signals[UnmatchedIdx[i]].signal)]])
\* the terms found in every unmatched signal that occur more often in them
\* than any other term (at most one)
TopSharedTerms ==
  {term \in Range(UnmatchedKeywords) :
     /\ \A i \in Range(UnmatchedIdx) :
           term \in Range(KeywordsTable[TextId(signals[i].signal)])
     /\ \A other \in Range(UnmatchedKeywords) \ {term} :
           Occurrences(UnmatchedKeywords, term)
             > Occurrences(UnmatchedKeywords, other)}

\* C13: in the signal variant, when at least 3 signals match no catalog
\* keyword and one term occurs in all of them and is their most frequent
\* term, detect returns exactly one narrative for those signals, named
\* "Emerging: " followed by the term title-cased, holding all of them.
EmergingNamedAfterSharedTerm ==
  (program = "signal" /\ detected /\ Len(UnmatchedIdx) >= 3)
  => \A term \in TopSharedTerms :
        /\ Cardinality({k \in 1..Len(narratives) :
                          narratives[k].name = EmergingName(term)}) = 1
        /\ \A k \in 1..Len(narratives) :
              (\E i \in 1..Len(narratives[k].members) :
                  Unmatched(signals[narratives[k].members[i]]))
              => /\ narratives[k].name = EmergingName(term)
                 /\ narratives[k].members = UnmatchedIdx
\* six unmatched signals, of two different texts, whose most frequent
\* shared term is "hackathon", under one narrative "Emerging: Hackathon"
SixSignalsShareHackathon ==
  /\ detected
  /\ Len(UnmatchedIdx) = 6
  /\ TopSharedTerms = {<<"h","a","c","k","a","t","h","o","n">>}
  /\ \E i \in 1..6 : signals[i].signal # signals[1].signal
  /\ \E k \in 1..Len(narratives) :
        /\ narratives[k].name
             = [prefix |-> "Emerging: ",
                term |-> <<"H","a","c","k","a","t","h","o","n">>]
        /\ narratives[k].signal_count = 6

\* the unmatched signals whose lower-cased text holds the term
SignalsHolding(term) ==
  {i \in Range(UnmatchedIdx) : Contains(LowerTable[TextId(signals[i].signal)], term)}

\* C14: in the signal variant a narrative "Emerging: <term>" is in the
\* output only if at least 3 signals matched no catalog entry and the term
\* is held by at least 2 distinct unmatched signals.
EmergingOnlyFromSharedTerm ==
  \A k \in 1..Len(narratives) :
     narratives[k].name.prefix = "Emerging: "
     => /\ Len(UnmatchedIdx) >= 3
        /\ \E term \in Range(UnmatchedKeywords) :
              /\ title(term) = narratives[k].name.term
              /\ Cardinality(SignalsHolding(term)) >= 2
\* three unmatched signals, two of them under an "Emerging: " narrative,
\* the third with a term that it holds twice and no other signal holds:
\* no narrative carries that term
TermOfOneSignalNotEmitted ==
  /\ detected
  /\ Len(UnmatchedIdx) = 3
  /\ \E k \in 1..Len(narratives) :
        narratives[k].name.prefix = "Emerging: " /\ narratives[k].signal_count = 2
  /\ \E term \in Range(UnmatchedKeywords) :
        /\ Occurrences(UnmatchedKeywords, term) >= 2
        /\ Cardinality(SignalsHolding(term)) = 1
        /\ \A k \in 1..Len(narratives) : narratives[k].name # EmergingName(term)

\* C15: a refresh run of the serving layer and a pipeline run either
\* complete and publish, or fail leaving the published output untouched:
\* the step that ends a failed run (the exception handler of
\* get_latest_data, the return False of run_full_pipeline) leaves the
\* analysis file and the snapshot narrative_data as they were, which is as
\* they were when the run started unless another run published meanwhile.
FailedRunLeavesOutputUntouched ==
  [][/\ \A r \in 1..MaxRequests :
          (program = "server" /\ requests[r].pc = "except" /\ requests'[r].pc = "idle")
          => /\ analysis_file' = analysis_file
             /\ narrative_data' = narrative_data
     /\ (program = "server" /\ pipeline.pc \in {"awaiting", "analyze"}
           /\ pipeline'.pc = "idle")
        => /\ analysis_file' = analysis_file
           /\ narrative_data' = narrative_data]_vars

\* the requests that are between the resumption after the ingestion and
\* the return: in their save-analyze-persist section
InSection == {r \in DOMAIN requests : requests[r].pc \notin {"idle", "cached", "awaiting"}}
\* the requests whose refresh is in progress
Refreshing == {r \in DOMAIN requests : requests[r].pc \notin {"idle", "cached"}}

\* C16: of two overlapping get_latest_data refreshes, the writes of one to
\* the raw-content file, the analysis file, narrative_data and last_update
\* are never interleaved with the other's: while a request is in its
\* save-analyze-persist section no other request is in its own, and a step
\* that writes one of the four is a step of the one request in its section.
WritesNeverInterleaved ==
  /\ [](program = "server" => Cardinality(InSection) <= 1)
  /\ [][program = "server"
        /\ <<raw_content, analysis_file, narrative_data, last_update>>
             # <<raw_content', analysis_file', narrative_data', last_update'>>
        /\ pipeline' = pipeline
        => \E r \in InSection :
              /\ InSection = {r}
              /\ requests'[r].pc # requests[r].pc
              /\ \A q \in DOMAIN requests \ {r} : requests'[q] = requests[q]]_vars
\* two refreshes overlap: one is past its first write, the other still
\* awaits its ingestion, started before the first one's resumption
OverlappingRefreshes ==
  /\ program = "server"
  /\ \E r, q \in DOMAIN requests :
        /\ requests[r].pc = "persist"
        /\ requests[q].pc = "awaiting"
        /\ raw_content # <<>>

\* C17: the serving layer refreshes single-flight: at most one refresh
\* (ingest, analyze, persist) is in progress at any time.
RefreshSingleFlight ==
  program = "server" => Cardinality(Refreshing) <= 1

\* the signals of ss that come in the earlier floor(n/2) when ss is
\* ordered by timestamp, equal timestamps keeping their order
EarlierHalf(ss) ==
  {i \in 1..Len(ss) :
     Cardinality({j \in 1..Len(ss) :
        \/ ss[j].timestamp.t < ss[i].timestamp.t
        \/ ss[j].timestamp.t = ss[i].timestamp.t /\ j < i}) < Len(ss) \div 2}
\* the sum of the strengths of the signals of ss with an index in idx
StrengthOver(ss, idx) ==
  SumSeq([i \in 1..Len(ss) |-> IF i \in idx THEN ss[i].strength ELSE 0])
\* later mean strength / earlier mean strength against 1.2 and 0.8, the
\* means compared by cross-multiplication; middle is the remaining label
RatioTrend(ss, middle) ==
  LET early == EarlierHalf(ss)
      late == (1..Len(ss)) \ early
      Se == StrengthOver(ss, early)
      Sr == StrengthOver(ss, late)
  IN IF 5 * Sr * Cardinality(early) > 6 * Se * Cardinality(late) THEN "accelerating"
     ELSE IF 5 * Sr * Cardinality(early) < 4 * Se * Cardinality(late) THEN "declining"
     ELSE middle
\* the narratives of the last detect call with at least 3 signals whose
\* timestamps all parse
RatioNarratives ==
  {k \in 1..Len(narratives) :
     /\ Len(narratives[k].members) >= 3
     /\ \A i \in 1..Len(narratives[k].members) :
           SigParse(signals[narratives[k].members[i]].timestamp).ok}
\* among them, those whose timestamps are all naive or all offset-aware
\* and whose earlier half has a positive mean strength
RatioDefined ==
  {k \in RatioNarratives :
     LET ss == MemberSignals(narratives[k])
     IN /\ \A i, j \in 1..Len(ss) :
              SigParse(ss[i].timestamp).aware = SigParse(ss[j].timestamp).aware
        /\ StrengthOver(ss, EarlierHalf(ss)) > 0}

\* C18 as stated: in the signal variant a narrative with n >= 3 signals
\* whose timestamps all parse has the trend of the ratio of the later mean
\* strength to the earlier mean strength: "accelerating" above 1.2,
\* "declining" below 0.8, else the middle label (steady, which the signal
\* variant spells stable).
TrendFollowsStrengthRatio ==
  program = "signal" =>
    \A k \in RatioNarratives :
       \/ narratives[k].momentum_trend = RatioTrend(MemberSignals(narratives[k]), "steady")
       \/ narratives[k].momentum_trend = RatioTrend(MemberSignals(narratives[k]), "stable")

\* C18 as amended: the trend follows the ratio when the timestamps are all
\* naive or all offset-aware and the earlier mean strength is positive,
\* with "stable" as the middle label; otherwise the trend is "stable".
TrendFollowsDefinedRatio ==
  program = "signal" =>
    \A k \in RatioNarratives :
       narratives[k].momentum_trend = IF k \in RatioDefined
                             THEN RatioTrend(MemberSignals(narratives[k]), "stable")
                             ELSE "stable"
\* four signals of one narrative, naive timestamps, a positive earlier
\* mean strength, and a ratio below 0.8 that makes the trend "declining"
RatioDecidesTrend ==
  /\ program = "signal"
  /\ \E k \in RatioDefined :
        /\ Len(narratives[k].members) = 4
        /\ narratives[k].momentum_trend = "declining"

\* the counts of a time series, most recent bucket first
CountsOf(timespan_data) == [b \in 1..Len(timespan_data) |-> timespan_data[b].count]

\* C19: in the content variant, with recent the total count of the 3 most
\* recent buckets and older the total count of the remaining 4, the trend
\* is "accelerating" if recent > 1.5 * older, "declining" if
\* recent < 0.5 * older and "steady" otherwise, for every vector of 7
\* bucket counts.
TrendComparesRecentWithOlder ==
  (program = "unit" /\ analysis.status = "momentum") =>
    LET c == CountsOf(analysis.timespan_data)
        recent == c[1] + c[2] + c[3]
        older == c[4] + c[5] + c[6] + c[7]
    IN /\ Len(c) = 7
       /\ (10 * recent > 15 * older) => analysis.momentum = "accelerating"
       /\ (10 * recent < 5 * older) => analysis.momentum = "declining"
       /\ (10 * recent <= 15 * older /\ 10 * recent >= 5 * older)
            => analysis.momentum = "steady"
\* the counts [10,9,8,1,1,1,0], recent 27 against older 3, classified
\* "accelerating"
ScenarioCAccelerating ==
  /\ program = "unit"
  /\ analysis.status = "momentum"
  /\ CountsOf(analysis.timespan_data) = <<10, 9, 8, 1, 1, 1, 0>>
  /\ analysis.momentum = "accelerating"

\* the catalog entries whose overlap with the candidate keywords, as a
\* fraction of the entry's keywords, is strictly above 0.3
AboveThreshold(keywords) ==
  {c \in 1..Len(known_narratives) :
     10 * Cardinality(Range(keywords) \cap Range(known_narratives[c].keywords))
       > 3 * Cardinality(Range(known_narratives[c].keywords))}
\* entry c has a higher overlap fraction than entry d
HigherFraction(keywords, c, d) ==
  Cardinality(Range(keywords) \cap Range(known_narratives[c].keywords))
      * Cardinality(Range(known_narratives[d].keywords))
    > Cardinality(Range(keywords) \cap Range(known_narratives[d].keywords))
        * Cardinality(Range(known_narratives[c].keywords))

\* C20: for every candidate keyword list the matcher returns the catalog
\* entry with the highest overlap fraction among those strictly above 0.3,
\* the first in catalog order among equals, and no match when no entry
\* exceeds 0.3.
MatcherPicksHighestFraction ==
  (program = "unit" /\ analysis.status = "matched") =>
    LET above == AboveThreshold(analysis.keywords)
    IN IF above = {} THEN analysis.narrative_name = <<>>
       ELSE \E c \in above :
              /\ analysis.narrative_name = DisplayName(known_narratives[c].name)
              /\ \A d \in above \ {c} :
                    \/ HigherFraction(analysis.keywords, c, d)
                    \/ ~HigherFraction(analysis.keywords, d, c) /\ c < d
\* two entries tie at 2/6 and the earlier one is returned, while a third
\* entry with 1/7 is below the threshold
TieGoesToFirstEntry ==
  /\ program = "unit"
  /\ analysis.status = "matched"
  /\ AboveThreshold(analysis.keywords) = {3, 7}
  /\ ~HigherFraction(analysis.keywords, 3, 7)
  /\ ~HigherFraction(analysis.keywords, 7, 3)
  /\ Range(analysis.keywords) \cap Range(known_narratives[5].keywords) # {}
  /\ analysis.narrative_name = DisplayName(known_narratives[3].name)

\* the narratives of the last report when it came from the cluster path
ClusterPathNarratives ==
  IF Returned /\ analysis.run.clusterer_invoked THEN analysis.narratives ELSE <<>>
\* the display names of the catalog
CatalogDisplayNames ==
  {DisplayName(known_narratives[c].name) : c \in 1..Len(known_narratives)}

\* C21: a narrative of the cluster path whose keywords clear no catalog
\* entry's threshold is named from its own first one or two keywords,
\* joined by a space and title-cased; every narrative of the cluster path
\* has a non-empty name.
ClusterNarrativeNamedFromKeywords ==
  \A k \in 1..Len(ClusterPathNarratives) :
     LET n == ClusterPathNarratives[k]
     IN /\ n.name # <<>>
        /\ AboveThreshold(n.keywords) = {}
             => /\ n.keywords # <<>>
                /\ n.name = title(IF Len(n.keywords) = 1 THEN n.keywords[1]
                                  ELSE n.keywords[1] \o <<" ">> \o n.keywords[2])
        /\ AboveThreshold(n.keywords) # {} => n.name \in CatalogDisplayNames
\* a narrative of the cluster path with no catalog entry above the
\* threshold and a name that starts with an upper-case letter and is no
\* catalog name
ClusterNamedFromOwnKeywords ==
  \E k \in 1..Len(ClusterPathNarratives) :
     /\ AboveThreshold(ClusterPathNarratives[k].keywords) = {}
     /\ Len(ClusterPathNarratives[k].keywords) >= 2
     /\ IsUpper(ClusterPathNarratives[k].name[1])
     /\ ClusterPathNarratives[k].name \notin CatalogDisplayNames

\* the narratives of the last report when it came from the keyword fallback
FallbackPathNarratives ==
  IF Returned /\ analysis.run.fallback_invoked THEN analysis.narratives ELSE <<>>
\* the occurrences of the keywords of catalog entry c in the lower-cased
\* text of the items, every keyword and every item counted
OccurrencesOfEntry(c) ==
  SumSeq([i \in 1..Len(raw_content) |->
    SumSeq([j \in 1..Len(known_narratives[c].keywords) |->
      KeywordCountTable[TextId(raw_content[i].content)][c][j]])])

\* C22: the keyword fallback emits a narrative for a catalog entry if and
\* only if the occurrences of the entry's keywords, summed over all
\* keywords and all items without deduplication, are at least 3; the
\* narrative's confidence is min(count/20, 1.0).
FallbackEmitsFromThreeOccurrences ==
  (Returned /\ analysis.run.fallback_invoked) =>
    \A c \in 1..Len(known_narratives) :
       LET emitted == {k \in 1..Len(analysis.narratives) :
                         analysis.narratives[k].name
                           = DisplayName(known_narratives[c].name)}
           total == OccurrencesOfEntry(c)
       IN /\ Cardinality(emitted) = IF total >= 3 THEN 1 ELSE 0
          /\ \A k \in emitted :
                analysis.narratives[k].confidence
                  = IF total >= 20 THEN 1000 ELSE 50 * total
\* a fallback run with an entry of more than 20 occurrences emitted at
\* confidence 1.0, an entry of 3 to 19 emitted, and an entry of 1 or 2
\* occurrences not emitted
FallbackSaturatedAndBelowThree ==
  /\ Returned /\ analysis.run.fallback_invoked
  /\ LET total == Eager([c \in 1..Len(known_narratives) |-> OccurrencesOfEntry(c)])
     IN \E c, d, e \in 1..Len(known_narratives) :
          /\ total[c] > 20
          /\ total[d] \in 3..19
          /\ total[e] \in 1..2
          /\ \E k \in 1..Len(analysis.narratives) :
                /\ analysis.narratives[k].name = DisplayName(known_narratives[c].name)
                /\ analysis.narratives[k].confidence = 1000
          /\ \A k \in 1..Len(analysis.narratives) :
                analysis.narratives[k].name # DisplayName(known_narratives[e].name)

\* (mean count of the 3 most recent buckets / max(mean count of the older
\* buckets, 1)) * confidence of a narrative with 7 buckets, as a fraction,
\* the confidence in thousandths
RisingScore(narrative) ==
  LET c == CountsOf(narrative.timespan_data)
      recent == c[1] + c[2] + c[3]
      older == c[4] + c[5] + c[6] + c[7]
  IN IF older > 4 THEN [num |-> 4 * recent * narrative.confidence, den |-> 3 * older]
     ELSE [num |-> recent * narrative.confidence, den |-> 3]
\* the fractions a and b are the same number, a is at least b
SameFraction(a, b) == a.num * b.den = b.num * a.den
AtLeastFraction(a, b) == a.num * b.den >= b.num * a.den

\* C23: the rising list holds only narratives whose trend is
\* "accelerating", at most 5 of them, in non-increasing order of momentum
\* score, each with the score (recent mean / max(older mean, 1)) *
\* confidence.
RisingListRanked ==
  (program = "unit" /\ analysis.status = "rising") =>
    LET rising == analysis.rising_narratives
    IN /\ Len(rising) <= 5
       /\ \A r \in 1..Len(rising) :
             \E k \in 1..Len(analysis.narratives) :
                /\ analysis.narratives[k].momentum = "accelerating"
                /\ analysis.narratives[k].name = rising[r].name
                /\ SameFraction(rising[r].momentum_score,
                                RisingScore(analysis.narratives[k]))
       /\ \A r \in 1..(Len(rising) - 1) :
             AtLeastFraction(rising[r].momentum_score, rising[r + 1].momentum_score)
\* six narratives, all accelerating, of three different scores, the first
\* of the input with the lowest: five are listed, the highest score first
SixAcceleratingFiveListed ==
  /\ program = "unit"
  /\ analysis.status = "rising"
  /\ Len(analysis.narratives) = 6
  /\ \A k \in 1..6 : analysis.narratives[k].momentum = "accelerating"
  /\ Len(analysis.rising_narratives) = 5
  /\ SameFraction(analysis.rising_narratives[1].momentum_score, [num |-> 3000, den |-> 1])
  /\ ~SameFraction(analysis.rising_narratives[5].momentum_score,
                   analysis.rising_narratives[1].momentum_score)
  /\ SameFraction(RisingScore(analysis.narratives[1]), [num |-> 300, den |-> 1])

\* for each pooled text, the catalog narratives of the signal variant one
\* of whose keywords is a substring of the lower-cased text
EntriesHeld ==
  [t \in 1..Len(PoolTexts) |->
     {c \in 1..Len(narrative_keywords) :
        \E j \in 1..Len(narrative_keywords[c].keywords) :
           Contains(LowerTable[t], narrative_keywords[c].keywords[j])}]

\* C24: in the signal variant every input signal is in at most one
\* returned narrative: the first catalog narrative, in catalog order, one
\* of whose keywords its lower-cased text holds, and an "Emerging: "
\* narrative only when it holds none; the signal sets of the narratives
\* are pairwise disjoint and the signal_counts sum to at most the number
\* of input signals.
SignalInAtMostOneNarrative ==
  (program = "signal" /\ detected) =>
    /\ \A k, l \in 1..Len(narratives) :
          k # l => Range(narratives[k].members) \cap Range(narratives[l].members) = {}
    /\ \A k \in 1..Len(narratives) :
          /\ narratives[k].signal_count = Cardinality(Range(narratives[k].members))
          /\ \A i \in Range(narratives[k].members) :
                LET held == EntriesHeld[TextId(signals[i].signal)]
                IN IF narratives[k].name.prefix = "Emerging: " THEN held = {}
                   ELSE /\ held # {}
                        /\ \A c \in held :
                              (\A d \in held : c <= d)
                              => narratives[k].name.prefix = narrative_keywords[c].name
    /\ SumSeq([k \in 1..Len(narratives) |-> narratives[k].signal_count]) <= Len(signals)
\* signals that hold keywords of two catalog narratives are under the
\* earlier one, beside an "Emerging: " narrative of three other signals
TwoEntriesHeldFirstTaken ==
  /\ program = "signal" /\ detected
  /\ \E k, l \in 1..Len(narratives) :
        /\ narratives[k].name.prefix = "Emerging: "
        /\ narratives[k].signal_count = 3
        /\ narratives[l].name.prefix # "Emerging: "
        /\ \A i \in Range(narratives[l].members) :
              Cardinality(EntriesHeld[TextId(signals[i].signal)]) = 2

\* the input signals assigned to catalog narrative c: those whose
\* lower-cased text holds a keyword of c and of no earlier entry
AssignedTo(c) ==
  {i \in 1..Len(signals) :
     LET held == EntriesHeld[TextId(signals[i].signal)]
     IN c \in held /\ \A d \in held : c <= d}

\* C25: every narrative the signal-variant detect returns is supported by
\* at least 2 signals, and every catalog narrative to which at least 2
\* signals were assigned is returned.
TwoSignalsSupportNarrative ==
  (program = "signal" /\ detected) =>
    /\ \A k \in 1..Len(narratives) :
          /\ narratives[k].signal_count >= 2
          /\ Len(narratives[k].members) >= 2
    /\ \A c \in 1..Len(narrative_keywords) :
          Cardinality(AssignedTo(c)) >= 2
          => \E k \in 1..Len(narratives) :
                /\ narratives[k].name = [prefix |-> narrative_keywords[c].name,
                                         term |-> <<>>]
                /\ Range(narratives[k].members) = AssignedTo(c)
\* a catalog narrative with exactly 2 signals is returned, another with
\* exactly 1 signal is not
PairReturnedSingleDropped ==
  /\ program = "signal" /\ detected
  /\ \E c, d \in 1..Len(narrative_keywords) :
        /\ Cardinality(AssignedTo(c)) = 2
        /\ Cardinality(AssignedTo(d)) = 1
        /\ \E k \in 1..Len(narratives) :
              /\ narratives[k].name.prefix = narrative_keywords[c].name
              /\ narratives[k].signal_count = 2
        /\ \A k \in 1..Len(narratives) :
              narratives[k].name.prefix # narrative_keywords[d].name

\* the items of the file at the indices of set S, in file order
ItemsAt(S) ==
  LET idx == SelectSeq([i \in 1..Len(raw_content) |-> i], LAMBDA i : i \in S)
  IN [m \in 1..Len(idx) |-> raw_content[idx[m]]]

\* C26: for every narrative of the cluster path the source breakdown and
\* the sample content are computed from exactly the items whose documents
\* are in the cluster, also when earlier items of the file were left out
\* of the clustering by the minimum-token filter; the breakdown's counts
\* sum to the narrative's frequency.
ClusterFieldsFromMembers ==
  \A k \in 1..Len(ClusterPathNarratives) :
     LET n == ClusterPathNarratives[k]
         items == ItemsAt(n.members)
     IN /\ n.frequency = Cardinality(n.members)
        /\ n.source_breakdown = SourceCounter(items)
        /\ n.sample_content = Take([m \in 1..Len(items) |-> Sample(items[m])], 3)

\* C27: every narrative produced by the keyword fallback has trend "steady"
\* and an empty time series, whatever the timestamps of the items, and a run
\* that takes the fallback reports an empty list of rising narratives.
FallbackNarrativesSteady ==
  Returned /\ analysis.run.fallback_invoked
    => /\ \A k \in 1..Len(analysis.narratives) :
             /\ analysis.narratives[k].momentum = "steady"
             /\ analysis.narratives[k].timespan_data = <<>>
       /\ analysis.rising_narratives = <<>>
\* a fallback run that emitted a narrative from items of the last three days
FallbackOverRecentItems ==
  /\ FallbackPathNarratives # <<>>
  /\ \A i \in 1..Len(raw_content) : raw_content[i].timestamp.t >= now - 72
  /\ analysis.rising_narratives = <<>>

\* C28: the output sequence is ordered: the signal variant returns the
\* narratives in non-increasing order of momentum score, and the content
\* variant returns them in non-increasing order of frequency, on the cluster
\* path and on the fallback path.
OutputOrdered ==
  /\ (program = "signal" /\ detected) =>
       \A k \in 1..(Len(narratives) - 1) :
          narratives[k].momentum_score >= narratives[k + 1].momentum_score
  /\ Returned =>
       \A k \in 1..(Len(analysis.narratives) - 1) :
          analysis.narratives[k].frequency >= analysis.narratives[k + 1].frequency
\* the signal variant returned two narratives of different momentum scores,
\* the one clustered later first
HigherMomentumMovedFirst ==
  /\ program = "signal" /\ detected
  /\ Len(narratives) >= 2
  /\ narratives[1].momentum_score > narratives[2].momentum_score
  /\ \E i \in Range(narratives[2].members) :
        \A j \in Range(narratives[1].members) : i < j

\* no data in memory, no refresh recorded, or the recorded one more than
\* UPDATE_INTERVAL before clock
Stale(clock) ==
  \/ narrative_data = [none |-> TRUE]
  \/ last_update = <<>>
  \/ (last_update # <<>> /\ clock - last_update[1] > UPDATE_INTERVAL)

\* C29: a get_latest_data call without force_refresh starts a refresh if and
\* only if no data is in memory, no refresh has succeeded, or more than
\* UPDATE_INTERVAL has passed since last_update; otherwise it returns the
\* data in memory without ingesting or analyzing.  The return of a failed
\* refresh leaves last_update unchanged, so that a call which refreshed
\* because of last_update finds a refresh needed again after it failed.
RefreshOnlyWhenStale ==
  [][\A r \in 1..MaxRequests :
       /\ (requests[r].pc = "idle" /\ requests'[r].pc # "idle"
             /\ ~requests'[r].force_refresh)
            => (requests'[r].pc = "awaiting" <=> Stale(now))
       /\ requests[r].pc = "cached"
            => /\ requests'[r].pc \in {"cached", "idle"}
               /\ requests'[r].pc = "idle"
                    => UNCHANGED <<raw_content, analysis_file, narrative_data, last_update>>
       /\ (requests[r].pc = "except" /\ requests'[r].pc = "idle")
            => /\ last_update' = last_update
               /\ (~requests[r].force_refresh
                     /\ (last_update = <<>>
                           \/ requests[r].now - last_update[1] > UPDATE_INTERVAL))
                    => Stale(now)']_vars
\* a call without force_refresh made exactly UPDATE_INTERVAL after the last
\* successful refresh is about to return the data in memory
CallAtIntervalServedFromMemory ==
  \E r \in 1..MaxRequests :
     /\ requests[r].pc = "cached"
     /\ ~requests[r].force_refresh
     /\ last_update # <<>>
     /\ requests[r].now - last_update[1] = UPDATE_INTERVAL

\* C30: across the interleavings of overlapping get_latest_data requests,
\* last_update never moves backwards, and narrative_data is always the
\* result of the refresh whose start time last_update records: it changes
\* only where a refresh stores its result together with its start time.
SnapshotFollowsLastUpdate ==
  [][/\ (last_update # <<>> /\ last_update' # <<>>)
          => last_update'[1] >= last_update[1]
     /\ last_update # <<>> => last_update' # <<>>
     /\ (program = "server" /\ narrative_data' # narrative_data)
          => \E r \in 1..MaxRequests :
                /\ requests[r].pc = "publish"
                /\ requests'[r].pc = "idle"
                /\ narrative_data' = requests[r].result
                /\ last_update' = <<requests[r].now>>]_vars
====
